---------------------------- MODULE Spec2Model ----------------------------
(***************************************************************************)
(* A model of breeze-asr-rs: the streaming voice-activity segmenter        *)
(* (src/src/vad.rs) and the greedy autoregressive decode loop with its     *)
(* two engine mutexes (src/src/model.rs).                                  *)
(*                                                                         *)
(* Audio buffers (Vec<i16>, VecDeque<i16>) are kept as run-length encoded  *)
(* sequences of sample identities: sample o of the c-th chunk fed to the   *)
(* segmenter has identity c * CHUNK_SIZE + o, and a buffer is the sequence *)
(* of maximal runs <<lo, hi>> (lo inclusive, hi exclusive) of consecutive  *)
(* identities it holds, in buffer order.                                   *)
(*                                                                         *)
(* The f32 arithmetic of vad.rs is modelled bit-exactly for the positive   *)
(* normal range: a value is <<m, e>> = m * 2^e with 2^23 <= m < 2^24, or   *)
(* <<0, 0>>, and every operation rounds to nearest, ties to even.          *)
(***************************************************************************)
EXTENDS Integers, Sequences, FiniteSets, TLC

(***************************************************************************)
(* f32 arithmetic                                                          *)
(***************************************************************************)
P12 == 2 ^ 12
P22 == 2 ^ 22
P23 == 2 ^ 23
P24 == 2 ^ 24

P6 == 2 ^ 6

RECURSIVE F32Norm(_, _)
F32Norm(m, e) ==
    IF m >= P23 THEN <<m, e>>
    ELSE IF m < P12 THEN F32Norm(m * P12, e - 12)
    ELSE IF m * P6 < P24 THEN F32Norm(m * P6, e - 6)
    ELSE F32Norm(2 * m, e - 1)

\* `n as f32` for 0 <= n < 2^24 (exact in that range)
F32FromNat(n) == IF n = 0 THEN <<0, 0>> ELSE F32Norm(n, 0)

\* round a 24-bit mantissa up or not, renormalising on carry
F32Round(q, e, up) ==
    IF ~up THEN <<q, e>>
    ELSE IF q + 1 = P24 THEN <<P23, e + 1>> ELSE <<q + 1, e>>

\* k more quotient bits of a long division by d; qr is <<quotient, remainder>>
F32DivStep(qr, d, k) ==
    <<qr[1] * (2 ^ k) + ((qr[2] * (2 ^ k)) \div d), (qr[2] * (2 ^ k)) % d>>

\* s more quotient bits, s being 23 or 24
F32LongDiv(q, r, d, s) ==
    F32DivStep(F32DivStep(F32DivStep(F32DivStep(<<q, r>>, d, 7), d, 7), d, 7),
               d, s - 21)

\* a / b in f32, b > 0
F32Div(a, b) ==
    IF a[1] = 0 THEN <<0, 0>>
    ELSE LET s  == IF a[1] >= b[1] THEN 23 ELSE 24
             qr == F32LongDiv(a[1] \div b[1], a[1] % b[1], b[1], s)
             q  == qr[1]
             r  == qr[2]
             up == (2 * r > b[1]) \/ (2 * r = b[1] /\ q % 2 = 1)
         IN  F32Round(q, a[2] - b[2] - s, up)

\* a * b in f32; the 48-bit product is built from 12-bit limbs
F32Mul(a, b) ==
    IF a[1] = 0 \/ b[1] = 0 THEN <<0, 0>>
    ELSE LET a1 == a[1] \div P12
             a0 == a[1] % P12
             b1 == b[1] \div P12
             b0 == b[1] % P12
             t0 == a0 * b0
             t1 == a1 * b0 + a0 * b1
             t2 == a1 * b1
             ls == t0 + (t1 % P12) * P12
             lo == ls % P24
             hi == t2 + (t1 \div P12) + (ls \div P24)
         IN  IF hi >= P23
             THEN F32Round(hi, a[2] + b[2] + 24,
                           (lo > P23) \/ (lo = P23 /\ hi % 2 = 1))
             ELSE LET q   == 2 * hi + (lo \div P23)
                      rem == lo % P23
                  IN  F32Round(q, a[2] + b[2] + 23,
                               (rem > P22) \/ (rem = P22 /\ q % 2 = 1))

\* a >= b and a < b for non-negative values
F32Ge(a, b) ==
    IF b[1] = 0 THEN TRUE
    ELSE IF a[1] = 0 THEN FALSE
    ELSE a[2] > b[2] \/ (a[2] = b[2] /\ a[1] >= b[1])

F32Lt(a, b) == ~F32Ge(a, b)

\* `x as usize`: truncation toward zero
F32ToUsize(a) ==
    IF a[1] = 0 THEN 0
    ELSE IF a[2] >= 0 THEN a[1] * (2 ^ a[2])
    ELSE IF 0 - a[2] >= 24 THEN 0
    ELSE a[1] \div (2 ^ (0 - a[2]))

(***************************************************************************)
(* Audio buffers as run-length encoded sequences of sample identities      *)
(***************************************************************************)
RECURSIVE BufLen(_)
BufLen(b) == IF b = <<>> THEN 0 ELSE (b[1][2] - b[1][1]) + BufLen(Tail(b))

\* push the run <<lo, hi>> at the back
BufPush(b, run) ==
    IF run[1] >= run[2] THEN b
    ELSE IF b # <<>> /\ b[Len(b)][2] = run[1]
         THEN [b EXCEPT ![Len(b)] = <<b[Len(b)][1], run[2]>>]
         ELSE Append(b, run)

\* Vec::extend / VecDeque::extend with the samples of c, in order
RECURSIVE BufExtend(_, _)
BufExtend(b, c) ==
    IF c = <<>> THEN b ELSE BufExtend(BufPush(b, c[1]), Tail(c))

\* n times pop_front
RECURSIVE BufPopFront(_, _)
BufPopFront(b, n) ==
    IF n = 0 \/ b = <<>> THEN b
    ELSE LET l == b[1][2] - b[1][1]
         IN  IF l <= n THEN BufPopFront(Tail(b), n - l)
             ELSE <<(<<b[1][1] + n, b[1][2]>>)>> \o Tail(b)

\* b[..n]
RECURSIVE BufTake(_, _)
BufTake(b, n) ==
    IF n = 0 \/ b = <<>> THEN <<>>
    ELSE LET l == b[1][2] - b[1][1]
         IN  IF l <= n THEN <<b[1]>> \o BufTake(Tail(b), n - l)
             ELSE <<(<<b[1][1], b[1][1] + n>>)>>

\* the sample identities a buffer holds, as a set
BufIds(b) == UNION { b[i][1] .. (b[i][2] - 1) : i \in DOMAIN b }

(***************************************************************************)
(* The segmenter, src/src/vad.rs                                           *)
(***************************************************************************)
CHUNK_SIZE == 512

\* Option<u32>: << >> is None, <<ms>> is Some(ms)
NoneMs == <<>>
SomeMs(ms) == <<ms>>

\* probabilities and the threshold are in hundredths; they are only compared
DefaultVadConfig ==
    [ sample_rate             |-> 16000,
      speech_threshold        |-> 50,
      silence_duration_ms     |-> 500,
      max_speech_duration_ms  |-> 10000,
      rollback_duration_ms    |-> 200,
      min_speech_duration_ms  |-> 250,
      notify_silence_after_ms |-> NoneMs ]

NoOutput == [kind |-> "None", segment |-> <<>>]
SegmentOutput(seg) == [kind |-> "Segment", segment |-> seg]
SilenceNotification == [kind |-> "SilenceNotification", segment |-> <<>>]

VadNew(config) ==
    [ config                 |-> config,
      state                  |-> "Waiting",
      current_segment        |-> <<>>,
      history_buffer         |-> <<>>,
      silence_chunks         |-> 0,
      speech_chunks          |-> 0,
      waiting_dropped_chunks |-> 0,
      notified_silence       |-> FALSE ]

set_notify_silence_after_ms(v, ms) ==
    [v EXCEPT !.config.notify_silence_after_ms = ms,
              !.notified_silence = IF ms = NoneMs THEN FALSE ELSE @]

chunk_duration_ms(config) ==
    F32Mul(F32Div(F32FromNat(CHUNK_SIZE), F32FromNat(config.sample_rate)),
           F32FromNat(1000))

\* a variant whose buffer has room for one chunk more
rollback_samples_and_chunk(config) ==
    F32ToUsize(F32Mul(F32Div(F32FromNat(config.rollback_duration_ms),
                             F32FromNat(1000)),
                      F32FromNat(config.sample_rate))) + CHUNK_SIZE

rollback_samples(config) ==
    F32ToUsize(F32Mul(F32Div(F32FromNat(config.rollback_duration_ms),
                             F32FromNat(1000)),
                      F32FromNat(config.sample_rate)))

duration_ms(len, config) ==
    F32Mul(F32Div(F32FromNat(len), F32FromNat(config.sample_rate)),
           F32FromNat(1000))

\* a variant that also takes a probability equal to the threshold for speech
SpeechDetectedInclusive(probability, config) ==
    probability >= config.speech_threshold

\* probability > self.config.speech_threshold
SpeechDetected(probability, config) == probability > config.speech_threshold

\* duration_ms < self.config.min_speech_duration_ms as f32
TooShort(len, config) ==
    F32Lt(duration_ms(len, config), F32FromNat(config.min_speech_duration_ms))

\* a variant that tests the limit before counting the current chunk
SilenceLimitReachedLate(silence_chunks, config) ==
    F32Ge(F32Mul(F32FromNat(silence_chunks - 1), chunk_duration_ms(config)),
          F32FromNat(config.silence_duration_ms))

\* silence_duration_ms >= self.config.silence_duration_ms as f32
SilenceLimitReached(silence_chunks, config) ==
    F32Ge(F32Mul(F32FromNat(silence_chunks), chunk_duration_ms(config)),
          F32FromNat(config.silence_duration_ms))

\* a variant without a forced close
MaxSpeechNeverReached(speech_chunks, config) == FALSE

\* speech_duration_ms >= self.config.max_speech_duration_ms as f32
MaxSpeechReached(speech_chunks, config) ==
    F32Ge(F32Mul(F32FromNat(speech_chunks), chunk_duration_ms(config)),
          F32FromNat(config.max_speech_duration_ms))

\* dropped_duration >= limit_ms as f32
NotifyLimitReached(dropped_chunks, limit_ms, config) ==
    F32Ge(F32Mul(F32FromNat(dropped_chunks), chunk_duration_ms(config)),
          F32FromNat(limit_ms))

\* a variant that leaves the closed segment in the buffer
resetKeepsSegment(v) ==
    [v EXCEPT !.history_buffer = <<>>,
              !.silence_chunks = 0,
              !.speech_chunks = 0,
              !.state = "Waiting",
              !.waiting_dropped_chunks = 0,
              !.notified_silence = FALSE]

reset(v) ==
    [v EXCEPT !.current_segment = <<>>,
              !.history_buffer = <<>>,
              !.silence_chunks = 0,
              !.speech_chunks = 0,
              !.state = "Waiting",
              !.waiting_dropped_chunks = 0,
              !.notified_silence = FALSE]

\* a variant that leaves the trailing silence in the segment
TrimTailKeepsSilence(segment, silence_chunks) == segment

\* the tail trim of finalize_segment: current_segment[..valid_len]
TrimTail(segment, silence_chunks) ==
    LET silence_len == silence_chunks * CHUNK_SIZE
        valid_len   == IF BufLen(segment) >= silence_len
                       THEN BufLen(segment) - silence_len ELSE 0
    IN  IF valid_len = 0 THEN <<>> ELSE BufTake(segment, valid_len)

\* a variant that applies the minimum-duration filter before the tail trim
finalize_segment_filter_first(v, trim_tail) ==
    IF v.current_segment = <<>>
    THEN [vad |-> reset(v), out |-> NoOutput]
    ELSE LET cut     == IF trim_tail
                        THEN TrimTail(v.current_segment, v.silence_chunks)
                        ELSE v.current_segment
             segment == IF TooShort(BufLen(v.current_segment), v.config)
                        THEN <<>> ELSE cut
         IN  [vad |-> reset(v),
              out |-> IF segment = <<>> THEN NoOutput
                      ELSE SegmentOutput(segment)]

finalize_segment(v, trim_tail) ==
    IF v.current_segment = <<>>
    THEN [vad |-> reset(v), out |-> NoOutput]
    ELSE LET cut     == IF trim_tail
                        THEN TrimTail(v.current_segment, v.silence_chunks)
                        ELSE v.current_segment
             segment == IF TooShort(BufLen(cut), v.config) THEN <<>> ELSE cut
         IN  [vad |-> reset(v),
              out |-> IF segment = <<>> THEN NoOutput
                      ELSE SegmentOutput(segment)]

\* the Waiting arm of process_chunk; chunk is the run of the chunk's samples
process_chunk_waiting(v, chunk, probability) ==
    LET extended == BufPush(v.history_buffer, chunk)
        cap      == rollback_samples(v.config)
        history  == IF BufLen(extended) > cap
                    THEN BufPopFront(extended, BufLen(extended) - cap)
                    ELSE extended
    IN  IF SpeechDetected(probability, v.config)
        THEN [vad |-> [v EXCEPT !.state = "Recording",
                                !.current_segment = BufExtend(@, history),
                                !.history_buffer = <<>>,
                                !.silence_chunks = 0,
                                !.speech_chunks = 0,
                                !.waiting_dropped_chunks = 0,
                                !.notified_silence = FALSE],
              out |-> NoOutput]
        ELSE IF v.config.notify_silence_after_ms = NoneMs
        THEN [vad |-> [v EXCEPT !.history_buffer = history], out |-> NoOutput]
        ELSE LET dropped == v.waiting_dropped_chunks + 1
                 fire    == NotifyLimitReached(dropped,
                                v.config.notify_silence_after_ms[1], v.config)
                            /\ ~v.notified_silence
             IN  [vad |-> [v EXCEPT !.history_buffer = history,
                                    !.waiting_dropped_chunks = dropped,
                                    !.notified_silence = IF fire THEN TRUE ELSE @],
                  out |-> IF fire THEN SilenceNotification ELSE NoOutput]

\* the Recording arm of process_chunk
process_chunk_recording(v, chunk, probability) ==
    LET w == [v EXCEPT !.current_segment = BufPush(@, chunk),
                       !.speech_chunks = @ + 1]
    IN  IF SpeechDetected(probability, v.config)
        THEN LET x == [w EXCEPT !.silence_chunks = 0]
             IN  IF MaxSpeechReached(x.speech_chunks, x.config)
                 THEN finalize_segment(x, FALSE)
                 ELSE [vad |-> x, out |-> NoOutput]
        ELSE LET x == [w EXCEPT !.silence_chunks = @ + 1]
             IN  IF SilenceLimitReached(x.silence_chunks, x.config)
                 THEN finalize_segment(x, TRUE)
                 ELSE [vad |-> x, out |-> NoOutput]

process_chunk(v, chunk, probability) ==
    IF v.state = "Waiting"
    THEN process_chunk_waiting(v, chunk, probability)
    ELSE process_chunk_recording(v, chunk, probability)

finish(v) ==
    IF v.current_segment # <<>>
    THEN IF TooShort(BufLen(v.current_segment), v.config)
         THEN [vad |-> reset(v), out |-> NoOutput]
         ELSE [vad |-> reset(v), out |-> SegmentOutput(v.current_segment)]
    ELSE [vad |-> v, out |-> NoOutput]

(***************************************************************************)
(* The segmenter driven chunk by chunk                                     *)
(***************************************************************************)
VARIABLES
    vad,        \* the VadProcessor
    fed,        \* number of chunks passed to process_chunk so far
    lastCall,   \* the last call made on the processor, with its output
    ep,         \* the current recording episode, as seen from the inputs
    run         \* what the whole run has seen so far

vadVars == <<vad, fed, lastCall, ep, run>>

VARIABLES
    pc,            \* where each caller of BreezeModel::infer stands
    tokens,        \* each call's token vector
    step,          \* each call's loop index i
    ret,           \* what each caller got back from its last call
    encoder,       \* the encoder mutex
    decoder,       \* the decoder mutex
    encoderCalls,  \* callers with a run() in flight on the encoder session
    decoderCalls,  \* callers with a run() in flight on the decoder session
    obs            \* per call: what the engine did in it

inferVars == <<pc, tokens, step, ret, encoder, decoder, encoderCalls,
               decoderCalls, obs>>

\* the streaming sessions of one BreezeASR (infer_stream, src/src/lib.rs)
VARIABLES
    sessions,       \* per session: the position of its generator and its history
    owner,          \* the session that fed each chunk given to the segmenter
    files           \* the calls of infer_file: how many, and where the last stands

streamVars == <<sessions, owner, files>>

\* AudioProcessor (src/src/audio.rs)
VARIABLES
    bank,           \* mel_filters while and after AudioProcessor::new builds it
    audio           \* one call of process_pcm: its stage and array shapes

audioVars == <<bank, audio>>

\* Tokenizer (src/src/tokenizer.rs)
VARIABLES
    tokenizer       \* a Tokenizer being loaded, and one call of its decode

\* the greedy selection of BreezeModel::infer on its own
VARIABLES
    selection       \* a logits vector and the token selected from it

vars == <<vadVars, inferVars, streamVars, audioVars, tokenizer, selection>>

\* what each component leaves alone
notVadVars == <<inferVars, streamVars, audioVars, tokenizer, selection>>
notInferVars == <<vadVars, streamVars, audioVars, tokenizer, selection>>
notStreamVars == <<audioVars, tokenizer, selection>>
notAudioVars == <<vadVars, inferVars, streamVars, tokenizer, selection>>
notTokenizerVars == <<vadVars, inferVars, streamVars, audioVars, selection>>
notSelectionVars == <<vadVars, inferVars, streamVars, audioVars, tokenizer>>

\* the largest number of chunks fed to one processor
MaxChunks == 24

\* the largest number of set_notify_silence_after_ms calls on one processor
MaxNotifyCalls == 1

\* the same for a processor built with a silence notification configured
MaxRearmCalls == 2

\* speech probabilities offered by the classifier, in hundredths
Probs == {10, 50, 90}

\* silence-notification settings a caller may choose
NotifyChoices == {NoneMs, SomeMs(64)}

SmallVadConfig ==
    [ sample_rate             |-> 16000,
      speech_threshold        |-> 50,
      silence_duration_ms     |-> 64,
      max_speech_duration_ms  |-> 160,
      rollback_duration_ms    |-> 40,
      min_speech_duration_ms  |-> 50,
      notify_silence_after_ms |-> NoneMs ]

NoRollbackVadConfig ==
    [ sample_rate             |-> 16000,
      speech_threshold        |-> 50,
      silence_duration_ms     |-> 64,
      max_speech_duration_ms  |-> 128,
      rollback_duration_ms    |-> 0,
      min_speech_duration_ms  |-> 0,
      notify_silence_after_ms |-> NoneMs ]

\* 27 ms of rollback are 432 samples; 432 + 7 * 512 samples last 251 ms
EdgeVadConfig ==
    [ sample_rate             |-> 16000,
      speech_threshold        |-> 50,
      silence_duration_ms     |-> 64,
      max_speech_duration_ms  |-> 288,
      rollback_duration_ms    |-> 27,
      min_speech_duration_ms  |-> 251,
      notify_silence_after_ms |-> NoneMs ]

\* a silence notification after two silent chunks
NotifyVadConfig ==
    [SmallVadConfig EXCEPT !.notify_silence_after_ms = SomeMs(64)]

VadConfigs ==
    {DefaultVadConfig, SmallVadConfig, NoRollbackVadConfig, EdgeVadConfig}

\* the samples of the c-th chunk (c counted from 0)
ChunkRun(c) == <<c * CHUNK_SIZE, (c + 1) * CHUNK_SIZE>>

NoEpisode ==
    [phase |-> "none", first |-> 0, r |-> 0, k |-> 0, s |-> 0, after |-> 0,
     clean |-> TRUE, segments |-> 0, heard |-> 0, quiet |-> 0]

\* the episode after a chunk of the given class, from the processor's state
\* before (pre) and after (post) the call and the call's output; first is
\* the chunk that opened the episode, heard the speech chunks received in
\* Recording since, quiet the silent chunks received since the last speech
\* chunk; an episode that is not speech chunks followed by silent chunks
\* keeps no other counts
EpisodeAfterChunk(e, pre, post, speech, out, c) ==
    LET emitted == IF out.kind = "Segment" THEN 1 ELSE 0
        phase   == IF post.state = "Recording" THEN "open" ELSE "closed"
        heard   == IF speech THEN e.heard + 1 ELSE e.heard
        quiet   == IF speech THEN 0 ELSE e.quiet + 1
    IN  IF pre.state = "Waiting"
        THEN IF speech
             THEN [phase |-> phase, first |-> c, r |-> BufLen(pre.history_buffer),
                   k |-> 1, s |-> 0, after |-> 0, clean |-> TRUE,
                   segments |-> emitted, heard |-> 0, quiet |-> 0]
             ELSE IF e.phase = "closed" /\ e.clean
                  THEN [e EXCEPT !.after = @ + 1, !.segments = @ + emitted]
                  ELSE NoEpisode
        ELSE IF e.clean /\ ~(speech /\ e.s > 0)
             THEN [e EXCEPT !.phase = phase,
                            !.k = IF speech THEN @ + 1 ELSE @,
                            !.s = IF speech THEN @ ELSE @ + 1,
                            !.segments = @ + emitted,
                            !.heard = heard,
                            !.quiet = quiet]
             ELSE [NoEpisode EXCEPT !.phase = phase, !.clean = FALSE,
                                    !.first = e.first, !.heard = heard,
                                    !.quiet = quiet]

\* the chunks that fill the rollback buffer
RollbackChunks(config) ==
    (((config.rollback_duration_ms * config.sample_rate) \div 1000)
        + CHUNK_SIZE - 1) \div CHUNK_SIZE

\* the chunks received in the current Waiting period, counted until they
\* fill the rollback buffer
WaitedAfterChunk(waited, pre, post) ==
    IF pre.state = "Waiting" /\ post.state = "Waiting"
    THEN IF waited < RollbackChunks(post.config) THEN waited + 1 ELSE waited
    ELSE 0

\* the SilenceNotifications emitted in the current Waiting period
NotesAfterChunk(notes, pre, post, out) ==
    IF pre.state = "Waiting" /\ post.state = "Waiting"
    THEN IF out.kind = "SilenceNotification" THEN notes + 1 ELSE notes
    ELSE 0

VadStart(configs) ==
    /\ \E config \in configs : vad = VadNew(config)
    /\ fed = 0
    /\ lastCall = [op |-> "new", pre |-> "Waiting", held |-> <<>>, out |-> NoOutput]
    /\ ep = NoEpisode
    /\ run = [allSilent |-> TRUE, notifyCalls |-> 0, outputs |-> 0,
              waited |-> 0, notes |-> 0]

ProcessChunk(probability) ==
    /\ fed < MaxChunks
    /\ lastCall.op # "finish"
    /\ \E res \in {process_chunk(vad, ChunkRun(fed), probability)} :
         LET speech == probability > vad.config.speech_threshold
         IN  /\ vad' = res.vad
             /\ lastCall' = [op |-> "process_chunk", pre |-> vad.state,
                             held |-> vad.current_segment, out |-> res.out]
             /\ ep' = EpisodeAfterChunk(ep, vad, res.vad, speech, res.out, fed)
             /\ run' = [run EXCEPT !.allSilent = @ /\ ~speech,
                                   !.outputs = @ + IF res.out.kind = "None" THEN 0 ELSE 1,
                                   !.waited = WaitedAfterChunk(@, vad, res.vad),
                                   !.notes = NotesAfterChunk(@, vad, res.vad, res.out)]
    /\ fed' = fed + 1
    /\ UNCHANGED notVadVars

\* the end of the stream
Finish ==
    /\ lastCall.op # "finish"
    /\ \E res \in {finish(vad)} :
         /\ vad' = res.vad
         /\ lastCall' = [op |-> "finish", pre |-> vad.state,
                         held |-> vad.current_segment, out |-> res.out]
         /\ run' = [run EXCEPT !.outputs = @ + IF res.out.kind = "None" THEN 0 ELSE 1]
    /\ UNCHANGED <<fed, ep>>
    /\ UNCHANGED notVadVars

SetNotify(ms, calls) ==
    /\ lastCall.op # "finish"
    /\ run.notifyCalls < calls
    /\ ms # vad.config.notify_silence_after_ms
    /\ vad' = set_notify_silence_after_ms(vad, ms)
    /\ lastCall' = [op |-> "set_notify", pre |-> vad.state,
                    held |-> vad.current_segment, out |-> NoOutput]
    /\ run' = [run EXCEPT !.notifyCalls = @ + 1]
    /\ UNCHANGED <<fed, ep>>
    /\ UNCHANGED notVadVars

VadNext ==
    \/ \E probability \in Probs : ProcessChunk(probability)
    \/ Finish
    \/ \E ms \in NotifyChoices : SetNotify(ms, MaxNotifyCalls)

\* a caller that turns the silence notification off and on again
NotifyNext ==
    \/ \E probability \in Probs : ProcessChunk(probability)
    \/ Finish
    \/ \E ms \in NotifyChoices : SetNotify(ms, MaxRearmCalls)


(***************************************************************************)
(* BreezeModel::infer, src/src/model.rs                                    *)
(***************************************************************************)
SOT == 50258
EOT == 50257
MAX_LEN == 448

\* the fold's start value; logit values of the model are naturals
NEG_INFINITY == -1

\* concurrent callers of infer on one BreezeModel
NumCallers == 2
Callers == 1 .. NumCallers

\* streams obtained from infer_stream on one BreezeASR; each runs infer on
\* the thread that polls it
NumSessions == 2
Sessions == 1 .. NumSessions

\* the thread that calls infer_file on the same BreezeASR
FileCaller == NumSessions + 1

\* every thread that can be inside BreezeModel::infer
Threads == Callers \cup Sessions \cup {FileCaller}

\* decode steps at which the engine's logits are drawn from LogitsChoices
MaxFree == 2

\* A logits vector is given by its entries above -inf, <<index, value>> in
\* index order; every other entry is -inf and never replaces the running best.
LogitsChoices ==
    { <<(<<7, 1>>)>>,
      <<(<<7, 1>>), (<<EOT, 2>>)>>,
      <<(<<7, 2>>), (<<EOT, 2>>)>>,
      <<(<<EOT, 1>>), (<<SOT, 2>>)>>,
      <<(<<EOT, 2>>), (<<SOT, 2>>)>>,
      << >> }

LateLogits == { <<(<<7, 1>>)>>, <<(<<7, 1>>), (<<EOT, 2>>)>> }

EngineLogits(toks, free) ==
    IF Len(toks) <= free THEN LogitsChoices ELSE LateLogits

\* what a decoder run and the extraction of its outputs can come to
DecoderOutcomes(toks, free) ==
    { [kind |-> "run_err", logits |-> <<>>],
      [kind |-> "extract_err", logits |-> <<>>],
      [kind |-> "panic", logits |-> <<>>] }
    \cup { [kind |-> "ok", logits |-> l] : l \in EngineLogits(toks, free) }

EncoderOutcomes == {"ok", "run_err", "extract_err", "panic"}

\* the fold of lines 127-130 over the entries of a logits vector
RECURSIVE ArgMaxFold(_, _, _)
ArgMaxFold(entries, argmax, max) ==
    IF entries = <<>> THEN argmax
    ELSE IF entries[1][2] > max
         THEN ArgMaxFold(Tail(entries), entries[1][1], entries[1][2])
         ELSE ArgMaxFold(Tail(entries), argmax, max)

\* a variant in which a later entry equal to the running best replaces it
RECURSIVE ArgMaxFoldLatest(_, _, _)
ArgMaxFoldLatest(entries, argmax, max) ==
    IF entries = <<>> THEN argmax
    ELSE IF entries[1][2] >= max
         THEN ArgMaxFoldLatest(Tail(entries), entries[1][1], entries[1][2])
         ELSE ArgMaxFoldLatest(Tail(entries), argmax, max)

ArgMaxKeepsLatest(logits) == ArgMaxFoldLatest(logits, 0, NEG_INFINITY)

ArgMax(logits) == ArgMaxFold(logits, 0, NEG_INFINITY)

\* the longest logits vector selected from on its own
MaxVocab == 4

\* the values of its entries: -inf and three finite values
LogitValues == {NEG_INFINITY, 0, 1, 2}

\* logits_slice: the vectors of 1 to MaxVocab entries
LogitsSlices ==
    UNION { [1 .. n -> LogitValues] : n \in 1 .. MaxVocab }

\* logits_slice.iter().enumerate(): <<index, value>> in index order
Enumerated(logits) == [i \in 1 .. Len(logits) |-> <<i - 1, logits[i]>>]

NoSelection == [logits |-> <<>>, token |-> 0]

SelectionIdle == selection = NoSelection

\* the fold of lines 127-130 over one logits vector
SelectToken(logits) ==
    /\ selection = NoSelection
    /\ selection' = [logits |-> logits, token |-> ArgMax(Enumerated(logits))]
    /\ UNCHANGED notSelectionVars

\* a variant with the two special ids swapped
InitialTokensSwapped == <<EOT>>

\* let mut tokens = vec![SOT]
InitialTokens == <<SOT>>

\* a variant with an inclusive upper bound
LoopContinuesInclusive(i) == i <= MAX_LEN

\* for i in 0..MAX_LEN
LoopContinues(i) == i < MAX_LEN

\* a variant that tests for the wrong special id
IsEotWrongId(next_token) == next_token = SOT

\* if next_token == EOT { break; }
IsEot(next_token) == next_token = EOT

\* std::sync::Mutex: lock() blocks while another caller holds the guard
NewMutex == [holder |-> 0, poisoned |-> FALSE]
\* a variant of the lock that never blocks
MutexFreeAlways(m) == TRUE
MutexFree(m) == m.holder = 0
\* a variant of lock() that hands out a guard without taking the mutex
LockedNotTaken(m, t) == m
Locked(m, t) == [m EXCEPT !.holder = t]
\* dropping the guard; a guard dropped while unwinding poisons the mutex
\* a variant in which the guard outlives its scope
UnlockedStillHeld(m, panicking) == [m EXCEPT !.poisoned = @ \/ panicking]
Unlocked(m, panicking) == [holder |-> 0, poisoned |-> m.poisoned \/ panicking]

NoRet == [kind |-> "None", tokens |-> <<>>, step |-> <<>>]
RetOk(toks) == [kind |-> "Ok", tokens |-> toks, step |-> <<>>]
\* an error whose message names no step
RetErr == [kind |-> "Err", tokens |-> <<>>, step |-> <<>>]
\* anyhow!("Decoder run failed at step {}: {}", i, e)
RetErrAtStep(i) == [kind |-> "Err", tokens |-> <<>>, step |-> <<i>>]
RetPanic == [kind |-> "Panic", tokens |-> <<>>, step |-> <<>>]

\* the attention context (cross_k, cross_v) the encoder run of a call
\* returned, and what a call holds before that
NoContext == [from |-> "none", call |-> 0]
ContextOf(t) == [from |-> "encoder", call |-> t]

\* the self-attention caches (self_k_cache, self_v_cache): all zeros, or
\* those the decoder run of step i returned
NoCache == [from |-> "none", step |-> 0]
ZeroCache == [from |-> "zeros", step |-> 0]
CacheFrom(i) == [from |-> "decoder", step |-> i]

NoInputs == [tokens |-> -1, offset |-> -1, self_cache |-> NoCache, cross |-> NoContext]

\* a variant that feeds the initial caches at every step
DecoderInputsZeroCache(toks, i, cache, context) ==
    [tokens |-> toks[Len(toks)], offset |-> i, self_cache |-> ZeroCache,
     cross |-> context]

\* the inputs of decoder_session.run at step i (lines 78-89)
DecoderInputs(toks, i, cache, context) ==
    [tokens |-> toks[Len(toks)], offset |-> i, self_cache |-> cache,
     cross |-> context]

NoObs ==
    [calls |-> 0, pushes |-> 0, lastSel |-> <<>>, failedAt |-> <<>>,
     context |-> NoContext, cache |-> NoCache, inputs |-> NoInputs]

\* the caller's view of a returned value: kept whole, or only its kind
Seen(value, keep) == IF keep THEN value ELSE [NoRet EXCEPT !.kind = value.kind]

InferIdle ==
    /\ pc = [t \in Threads |-> "idle"]
    /\ tokens = [t \in Threads |-> <<>>]
    /\ step = [t \in Threads |-> 0]
    /\ ret = [t \in Threads |-> NoRet]
    /\ encoder = NewMutex
    /\ decoder = NewMutex
    /\ encoderCalls = {}
    /\ decoderCalls = {}
    /\ obs = [t \in Threads |-> NoObs]

\* infer returns (or unwinds with) value; its locals are dropped
Leave(t, value, keep) ==
    /\ pc' = [pc EXCEPT ![t] = IF value.kind = "Panic" THEN "panicked" ELSE "returned"]
    /\ ret' = [ret EXCEPT ![t] = Seen(value, keep)]
    /\ tokens' = [tokens EXCEPT ![t] = <<>>]
    /\ step' = [step EXCEPT ![t] = 0]

Call(t) ==
    /\ pc[t] = "idle"
    /\ pc' = [pc EXCEPT ![t] = "enc_lock"]
    /\ ret' = [ret EXCEPT ![t] = NoRet]
    /\ obs' = [obs EXCEPT ![t] = NoObs]
    /\ UNCHANGED <<tokens, step, encoder, decoder, encoderCalls, decoderCalls>>
    /\ UNCHANGED notInferVars

\* the caller drops what it got and is ready to call again
Release(t) ==
    /\ pc[t] = "returned"
    /\ pc' = [pc EXCEPT ![t] = "idle"]
    /\ ret' = [ret EXCEPT ![t] = NoRet]
    /\ obs' = [obs EXCEPT ![t] = NoObs]
    /\ UNCHANGED <<tokens, step, encoder, decoder, encoderCalls, decoderCalls>>
    /\ UNCHANGED notInferVars

\* self.encoder.lock() and the start of encoder_session.run(inputs)
LockEncoder(t, keep) ==
    /\ pc[t] = "enc_lock"
    /\ MutexFree(encoder)
    /\ IF encoder.poisoned
       THEN /\ Leave(t, RetErr, keep)
            /\ UNCHANGED <<encoder, encoderCalls>>
       ELSE /\ encoder' = Locked(encoder, t)
            /\ encoderCalls' = encoderCalls \cup {t}
            /\ pc' = [pc EXCEPT ![t] = "enc_run"]
            /\ UNCHANGED <<tokens, step, ret>>
    /\ UNCHANGED <<decoder, decoderCalls, obs>>
    /\ UNCHANGED notInferVars

\* the encoder run ends, its outputs are extracted, the guard is dropped
EncoderReturn(t, outcome, keep) ==
    /\ pc[t] = "enc_run"
    /\ encoderCalls' = encoderCalls \ {t}
    /\ encoder' = Unlocked(encoder, outcome = "panic")
    /\ IF outcome = "ok"
       THEN /\ pc' = [pc EXCEPT ![t] = "dec_lock"]
            /\ tokens' = [tokens EXCEPT ![t] = InitialTokens]
            /\ obs' = [obs EXCEPT ![t].context = ContextOf(t)]
            /\ UNCHANGED <<step, ret>>
       ELSE /\ Leave(t, IF outcome = "panic" THEN RetPanic ELSE RetErr, keep)
            /\ UNCHANGED obs
    /\ UNCHANGED <<decoder, decoderCalls>>
    /\ UNCHANGED notInferVars

\* self.decoder.lock()
LockDecoder(t, keep) ==
    /\ pc[t] = "dec_lock"
    /\ MutexFree(decoder)
    /\ IF decoder.poisoned
       THEN /\ Leave(t, RetErr, keep)
            /\ obs' = [obs EXCEPT ![t] = IF keep THEN @ ELSE NoObs]
            /\ UNCHANGED decoder
       ELSE /\ decoder' = Locked(decoder, t)
            /\ pc' = [pc EXCEPT ![t] = "dec_loop"]
            /\ step' = [step EXCEPT ![t] = 0]
            /\ obs' = [obs EXCEPT ![t].cache = ZeroCache]
            /\ UNCHANGED <<tokens, ret>>
    /\ UNCHANGED <<encoder, encoderCalls, decoderCalls>>
    /\ UNCHANGED notInferVars

\* one more iteration: decoder_session.run(inputs) starts
DecoderRun(t) ==
    /\ pc[t] = "dec_loop"
    /\ LoopContinues(step[t])
    /\ pc' = [pc EXCEPT ![t] = "dec_run"]
    /\ decoderCalls' = decoderCalls \cup {t}
    /\ obs' = [obs EXCEPT ![t].calls = @ + 1,
                          ![t].inputs = DecoderInputs(tokens[t], step[t],
                                            obs[t].cache, obs[t].context)]
    /\ UNCHANGED <<tokens, step, ret, encoder, decoder, encoderCalls>>
    /\ UNCHANGED notInferVars

\* the decoder run ends; caches and logits are extracted, the token chosen
DecoderReturn(t, outcome, keep) ==
    /\ pc[t] = "dec_run"
    /\ decoderCalls' = decoderCalls \ {t}
    /\ IF outcome.kind = "ok"
       THEN LET next_token == ArgMax(outcome.logits)
            IN  IF IsEot(next_token)
                THEN /\ Leave(t, RetOk(tokens[t]), keep)
                     /\ decoder' = Unlocked(decoder, FALSE)
                     /\ obs' = [obs EXCEPT ![t] =
                                  IF keep
                                  THEN [@ EXCEPT !.lastSel = <<next_token>>,
                                                 !.cache = CacheFrom(step[t])]
                                  ELSE NoObs]
                ELSE /\ tokens' = [tokens EXCEPT ![t] = Append(@, next_token)]
                     /\ step' = [step EXCEPT ![t] = @ + 1]
                     /\ pc' = [pc EXCEPT ![t] = "dec_loop"]
                     /\ obs' = [obs EXCEPT ![t].lastSel = <<next_token>>,
                                           ![t].pushes = @ + 1,
                                           ![t].cache = CacheFrom(step[t])]
                     /\ UNCHANGED <<ret, decoder>>
       ELSE /\ Leave(t, CASE outcome.kind = "run_err" -> RetErrAtStep(step[t])
                          [] outcome.kind = "extract_err" -> RetErr
                          [] OTHER -> RetPanic, keep)
            /\ decoder' = Unlocked(decoder, outcome.kind = "panic")
            /\ obs' = [obs EXCEPT ![t] =
                         IF keep THEN [@ EXCEPT !.failedAt = <<step[t]>>] ELSE NoObs]
    /\ UNCHANGED <<encoder, encoderCalls>>
    /\ UNCHANGED notInferVars

\* the loop ran out of iterations: Ok(tokens)
LoopExit(t, keep) ==
    /\ pc[t] = "dec_loop"
    /\ ~LoopContinues(step[t])
    /\ Leave(t, RetOk(tokens[t]), keep)
    /\ decoder' = Unlocked(decoder, FALSE)
    /\ obs' = [obs EXCEPT ![t] = IF keep THEN @ ELSE NoObs]
    /\ UNCHANGED <<encoder, encoderCalls, decoderCalls>>
    /\ UNCHANGED notInferVars

(***************************************************************************)
(* AudioProcessor, src/src/audio.rs                                        *)
(***************************************************************************)
SAMPLE_RATE == 16000
N_FFT == 400
HOP_LENGTH == 160
CHUNK_LENGTH == 30
N_SAMPLES == CHUNK_LENGTH * SAMPLE_RATE
N_MELS == 80
target_frames == 3000

\* Frequencies are held in thousandths of a hertz, triangular weights in
\* units of 2^-12 and normalised weights in units of 2^-32.
MilliHz == 10 ^ 3
WeightOne == 2 ^ 12
NormOne == 2 ^ 20

\* mel_filter_bank(SAMPLE_RATE, N_FFT, N_MELS, 0.0, 8000.0): its anchors
\* mels[0 .. n_mels + 1] = 700 * (10^(m / 2595) - 1), m equally spaced from
\* mel_min = 0 to mel_max = 2595 * log10(1 + 8000 / 700), as the f32
\* computation gives them, in thousandths of a hertz
mels ==
    << 0, 22120, 44939, 68479, 92763, 117815,
       143658, 170317, 197820, 226191, 255458, 285651,
       316798, 348929, 382075, 416268, 451543, 487931,
       525470, 564195, 604144, 645355, 687868, 731725,
       776968, 823640, 871787, 921456, 972694, 1025551,
       1080079, 1136330, 1194358, 1254220, 1315973, 1379678,
       1445396, 1513191, 1583128, 1655275, 1729702, 1806481,
       1885686, 1967394, 2051684, 2138637, 2228338, 2320874,
       2416334, 2514811, 2616399, 2721198, 2829307, 2940834,
       3055884, 3174571, 3297007, 3423314, 3553610, 3688025,
       3826688, 3969731, 4117295, 4269521, 4426559, 4588558,
       4755678, 4928076, 5105925, 5289393, 5478659, 5673905,
       5875321, 6083101, 6297449, 6518568, 6746676, 6981992,
       7224743, 7475167, 7733501, 8000001 >>

\* fft_freqs[j] = j as f32 * sr / n_fft, exactly 40 j Hz
fft_freqs(j) == ((j * SAMPLE_RATE) \div N_FFT) * MilliHz

\* n_freqs = n_fft as usize / 2 + 1
n_freqs == N_FFT \div 2 + 1

\* the bins the loop of lines 194-200 writes for band i
TouchedBins(i) ==
    { j \in 0 .. (n_freqs - 1) :
        fft_freqs(j) >= mels[i + 1] /\ fft_freqs(j) < mels[i + 3] }

\* the weight lines 195-199 give bin j of band i
Triangle(j, i) ==
    LET freq   == fft_freqs(j)
        f_prev == mels[i + 1]
        f_curr == mels[i + 2]
        f_next == mels[i + 3]
    IN  IF freq >= f_prev /\ freq < f_curr
        THEN ((freq - f_prev) * WeightOne) \div (f_curr - f_prev)
        ELSE IF freq >= f_curr /\ freq < f_next
             THEN ((f_next - freq) * WeightOne) \div (f_next - f_curr)
             ELSE 0

\* let width = mels[i + 2] - mels[i]
width(i) == mels[i + 3] - mels[i + 1]

\* a variant that scales by 1 / width
norm_factor_unit_area(i) == (NormOne * MilliHz) \div width(i)

\* let norm_factor = 2.0 / width
norm_factor(i) == (2 * NormOne * MilliHz) \div width(i)

\* col.mapv_inplace(|x| x * norm_factor)
Scaled(col, factor) == [j \in DOMAIN col |-> col[j] * factor]

\* the sum of a column of the matrix; the bins not written hold zero
RECURSIVE SumOver(_, _)
SumOver(col, bins) ==
    IF bins = {} THEN 0
    ELSE LET j == CHOOSE k \in bins : TRUE
         IN  col[j] + SumOver(col, bins \ {j})

ColumnSum(col) == SumOver(col, DOMAIN col)

NewBank == [at |-> "weights", band |-> 0, raw |-> <<>>, weights |-> <<>>]

\* lengths of the audio given to process_pcm
AudioLens ==
    {0, 1, N_FFT - 1, N_FFT, N_FFT + 1, N_FFT + HOP_LENGTH, 10 * SAMPLE_RATE,
     N_SAMPLES - 1, N_SAMPLES, N_SAMPLES + 1, 2 * N_SAMPLES, 7 * N_SAMPLES}

NoAudio == [at |-> "idle", len |-> 0, padded |-> 0, rows |-> 0, cols |-> 0]

AudioIdle ==
    /\ bank = NewBank
    /\ audio = NoAudio

\* a variant that truncates but does not pad
FitTruncateOnly(len) == IF len > N_SAMPLES THEN N_SAMPLES ELSE len

\* padded_audio.resize(N_SAMPLES, 0.0) or padded_audio.truncate(N_SAMPLES)
FitToWindow(len) ==
    IF len < N_SAMPLES THEN N_SAMPLES
    ELSE IF len > N_SAMPLES THEN N_SAMPLES
    ELSE len

\* let n_frames = (input.len() - n_fft) / hop_length + 1
n_frames(len, n_fft, hop_length) == (len - n_fft) \div hop_length + 1

\* input[start..end] of every row lies inside the input
FramesInRange(len, n_fft, hop_length) ==
    \A i \in 0 .. (n_frames(len, n_fft, hop_length) - 1) :
        i * hop_length + n_fft <= len

\* the frame axis after lines 89-100
FixedFrames(current_frames) ==
    IF current_frames < target_frames THEN target_frames
    ELSE IF current_frames > target_frames THEN target_frames
    ELSE current_frames

\* lines 189-201 for one band
BuildBand ==
    /\ bank.at = "weights"
    /\ bank.band < N_MELS
    /\ bank' = [bank EXCEPT
          !.raw = Append(@, [j \in TouchedBins(bank.band) |-> Triangle(j, bank.band)]),
          !.band = IF @ + 1 = N_MELS THEN 0 ELSE @ + 1,
          !.at = IF bank.band + 1 = N_MELS THEN "normalize" ELSE @]
    /\ UNCHANGED audio
    /\ UNCHANGED notAudioVars

\* lines 204-210 for one band
NormalizeBand ==
    /\ bank.at = "normalize"
    /\ bank.band < N_MELS
    /\ bank' = [bank EXCEPT
          !.weights = Append(@, Scaled(bank.raw[bank.band + 1], norm_factor(bank.band))),
          !.band = IF @ + 1 = N_MELS THEN 0 ELSE @ + 1,
          !.at = IF bank.band + 1 = N_MELS THEN "built" ELSE @]
    /\ UNCHANGED audio
    /\ UNCHANGED notAudioVars

\* process_pcm(samples): the audio is fitted to N_SAMPLES (lines 61-66)
ProcessPcm(len) ==
    /\ bank.at = "built"
    /\ audio.at = "idle"
    /\ audio' = [NoAudio EXCEPT !.at = "fitted", !.len = len,
                                !.padded = FitToWindow(len)]
    /\ UNCHANGED bank
    /\ UNCHANGED notAudioVars

\* stft(&padded_audio, N_FFT, HOP_LENGTH, &window): usize subtraction of a
\* longer frame from a shorter input overflows, and a frame that ends past
\* the input is an out-of-range slice
Stft ==
    /\ audio.at = "fitted"
    /\ audio' =
          IF audio.padded < N_FFT \/ ~FramesInRange(audio.padded, N_FFT, HOP_LENGTH)
          THEN [audio EXCEPT !.at = "panicked"]
          ELSE [audio EXCEPT !.at = "stft",
                             !.rows = n_frames(audio.padded, N_FFT, HOP_LENGTH),
                             !.cols = N_FFT]
    /\ UNCHANGED bank
    /\ UNCHANGED notAudioVars

\* magnitudes.slice(s![.., ..(N_FFT / 2 + 1)]).dot(&self.mel_filters)
MelProject ==
    /\ audio.at = "stft"
    /\ audio' =
          IF N_FFT \div 2 + 1 > audio.cols \/ N_FFT \div 2 + 1 # n_freqs
          THEN [audio EXCEPT !.at = "panicked"]
          ELSE [audio EXCEPT !.at = "mel", !.cols = Len(bank.weights)]
    /\ UNCHANGED bank
    /\ UNCHANGED notAudioVars

\* lines 89-100: exactly target_frames frames
FixFrames ==
    /\ audio.at = "mel"
    /\ audio' = [audio EXCEPT !.at = "fixed", !.rows = FixedFrames(@)]
    /\ UNCHANGED bank
    /\ UNCHANGED notAudioVars

\* final_spec.t().to_owned()
Transpose ==
    /\ audio.at = "fixed"
    /\ audio' = [audio EXCEPT !.at = "done", !.rows = audio.cols,
                              !.cols = audio.rows]
    /\ UNCHANGED bank
    /\ UNCHANGED notAudioVars

AudioNext ==
    \/ BuildBand
    \/ NormalizeBand
    \/ \E len \in AudioLens : ProcessPcm(len)
    \/ Stft
    \/ MelProject
    \/ FixFrames
    \/ Transpose

(***************************************************************************)
(* Tokenizer, src/src/tokenizer.rs                                         *)
(* Lines, tokens and texts are sequences of bytes.                         *)
(***************************************************************************)
\* the most lines of a token file, and the most ids given to decode
MaxLines == 2
MaxIds == 3

\* "hello", "world", an empty line, "4pw 1" (base64 without padding of the
\* bytes E2 9C, and a second field), "kw==" (base64 of the byte 93),
\* "PHxhfD4=" (base64 of "<|a|>") and "PHx8Pg==" (base64 of "<||>")
LineHello == <<104, 101, 108, 108, 111>>
LineWorld == <<119, 111, 114, 108, 100>>
LineEmpty == << >>
LineCheckHead == <<52, 112, 119, 32, 49>>
LineCheckTail == <<107, 119, 61, 61>>
LineControl == <<80, 72, 120, 104, 102, 68, 52, 61>>
LineBareControl == <<80, 72, 120, 56, 80, 103, 61, 61>>

Lines ==
    {LineHello, LineWorld, LineEmpty, LineCheckHead, LineCheckTail, LineControl,
     LineBareControl}

\* ids given to decode: those of the lines, one below and one above
Ids == -1 .. MaxLines

\* the characters split_whitespace splits at (those of ASCII)
IsWhitespace(c) == c \in {9, 10, 11, 12, 13, 32}

\* line.split_whitespace().collect()[0]: the first field of a line that
\* has one; the line begins with it or with whitespace before it
RECURSIVE SkipWhitespace(_)
SkipWhitespace(line) ==
    IF line # <<>> /\ IsWhitespace(Head(line)) THEN SkipWhitespace(Tail(line))
    ELSE line

RECURSIVE TakeField(_)
TakeField(line) ==
    IF line = <<>> \/ IsWhitespace(Head(line)) THEN <<>>
    ELSE <<Head(line)>> \o TakeField(Tail(line))

\* parts.is_empty()
PartsEmpty(line) == SkipWhitespace(line) = <<>>

FirstPart(line) == TakeField(SkipWhitespace(line))

\* the value of a symbol in an alphabet of the base64 crate, -1 if it has none
SymbolValue(alphabet, c) ==
    IF c \in 65 .. 90 THEN c - 65
    ELSE IF c \in 97 .. 122 THEN c - 71
    ELSE IF c \in 48 .. 57 THEN c + 4
    ELSE IF alphabet = "STANDARD" /\ c = 43 THEN 62
    ELSE IF alphabet = "STANDARD" /\ c = 47 THEN 63
    ELSE IF alphabet = "URL_SAFE" /\ c = 45 THEN 62
    ELSE IF alphabet = "URL_SAFE" /\ c = 95 THEN 63
    ELSE -1

\* the '=' signs a string ends with
RECURSIVE TrailingPads(_)
TrailingPads(input) ==
    IF input # <<>> /\ input[Len(input)] = 61
    THEN 1 + TrailingPads(SubSeq(input, 1, Len(input) - 1))
    ELSE 0

\* the bytes that symbol values stand for, six bits each
SymbolBytes(vals) ==
    LET n   == Len(vals)
        len == (n \div 4) * 3 + (IF n % 4 = 0 THEN 0 ELSE (n % 4) - 1)
        ByteAt(p) ==
            LET q == 4 * (p \div 3)
            IN  CASE p % 3 = 0 -> vals[q + 1] * 4 + (vals[q + 2] \div 16)
                  [] p % 3 = 1 -> (vals[q + 2] % 16) * 16 + (vals[q + 3] \div 4)
                  [] OTHER     -> (vals[q + 3] % 4) * 64 + vals[q + 4]
    IN  [p \in 1 .. len |-> ByteAt(p - 1)]

\* Engine::decode of general_purpose::STANDARD and URL_SAFE (padded: canonical
\* padding required) and of their _NO_PAD forms (no padding allowed); bits
\* left over in the last symbol must be zero
Base64Decode(input, alphabet, padded) ==
    LET pads == TrailingPads(input)
        data == SubSeq(input, 1, Len(input) - pads)
        n    == Len(data)
        vals == [k \in 1 .. n |-> SymbolValue(alphabet, data[k])]
    IN  IF /\ \A k \in 1 .. n : vals[k] >= 0
           /\ (n % 4) # 1
           /\ pads = (IF padded THEN (4 - (n % 4)) % 4 ELSE 0)
           /\ (n % 4 = 2) => (vals[n] % 16 = 0)
           /\ (n % 4 = 3) => (vals[n] % 4 = 0)
        THEN [ok |-> TRUE, bytes |-> SymbolBytes(vals)]
        ELSE [ok |-> FALSE, bytes |-> <<>>]

\* while padded.len() % 4 != 0 { padded.push('='); }
RECURSIVE Repadded(_)
Repadded(input) ==
    IF Len(input) % 4 # 0 THEN Repadded(Append(input, 61)) ELSE input

decode_token_bytes(input) ==
    LET standard        == Base64Decode(input, "STANDARD", TRUE)
        standard_no_pad == Base64Decode(input, "STANDARD", FALSE)
        manual          == Base64Decode(Repadded(input), "STANDARD", TRUE)
        url_safe        == Base64Decode(input, "URL_SAFE", TRUE)
        url_safe_no_pad == Base64Decode(input, "URL_SAFE", FALSE)
    IN  IF standard.ok THEN standard.bytes
        ELSE IF standard_no_pad.ok THEN standard_no_pad.bytes
        ELSE IF manual.ok THEN manual.bytes
        ELSE IF url_safe.ok THEN url_safe.bytes
        ELSE IF url_safe_no_pad.ok THEN url_safe_no_pad.bytes
        ELSE input

\* a variant that counts lines from one
LineIdFromOne(i) == i + 1

\* for (i, line) in reader.lines().enumerate(): the id is i as i64
LineId(i) == i

\* bytes.len() > 4 && bytes.starts_with(b"<|") && bytes.ends_with(b"|>")
IsSpecialToken(bytes) ==
    /\ Len(bytes) > 4
    /\ SubSeq(bytes, 1, 2) = <<60, 124>>
    /\ SubSeq(bytes, Len(bytes) - 1, Len(bytes)) = <<124, 62>>

\* the bytes a second, third or fourth byte of a UTF-8 sequence may have
\* after the bytes before it
Utf8Next(seen) ==
    IF Len(seen) = 1
    THEN CASE seen[1] = 224 -> 160 .. 191
           [] seen[1] = 237 -> 128 .. 159
           [] seen[1] = 240 -> 144 .. 191
           [] seen[1] = 244 -> 128 .. 143
           [] OTHER -> 128 .. 191
    ELSE 128 .. 191

Utf8Width(b) ==
    IF b < 128 THEN 1
    ELSE IF b \in 194 .. 223 THEN 2
    ELSE IF b \in 224 .. 239 THEN 3
    ELSE IF b \in 240 .. 244 THEN 4
    ELSE 0

\* the longest prefix of bytes that begins a UTF-8 sequence of the width
\* of its first byte
RECURSIVE Utf8Prefix(_, _, _)
Utf8Prefix(bytes, seen, w) ==
    IF Len(seen) = w \/ Len(bytes) = Len(seen) THEN seen
    ELSE IF bytes[Len(seen) + 1] \in Utf8Next(seen)
         THEN Utf8Prefix(bytes, Append(seen, bytes[Len(seen) + 1]), w)
         ELSE seen

\* String::from_utf8_lossy(&all_bytes).into_owned(), as the bytes of the
\* String: every maximal invalid part becomes U+FFFD (EF BF BD)
RECURSIVE from_utf8_lossy(_)
from_utf8_lossy(bytes) ==
    IF bytes = <<>> THEN <<>>
    ELSE LET w    == Utf8Width(bytes[1])
             part == IF w = 0 THEN <<bytes[1]>> ELSE Utf8Prefix(bytes, <<bytes[1]>>, w)
             rest == SubSeq(bytes, Len(part) + 1, Len(bytes))
         IN  (IF w # 0 /\ Len(part) = w THEN part ELSE <<239, 191, 189>>)
                \o from_utf8_lossy(rest)

NewTokenizer ==
    [at |-> "loading", file |-> <<>>, id_to_bytes |-> <<>>, ids |-> <<>>,
     all_bytes |-> <<>>, text |-> <<>>]

TokenizerIdle == tokenizer = NewTokenizer

\* id_to_bytes.insert(i as i64, decoded_bytes), the map held as a function
Inserted(map, id, bytes) ==
    [k \in DOMAIN map \cup {id} |-> IF k = id THEN bytes ELSE map[k]]

\* Tokenizer::new reads one more line (lines 17-30)
ReadLine(line) ==
    /\ tokenizer.at = "loading"
    /\ Len(tokenizer.file) < MaxLines
    /\ tokenizer' = [tokenizer EXCEPT
          !.file = Append(@, line),
          !.id_to_bytes =
              IF PartsEmpty(line) THEN @
              ELSE Inserted(@, LineId(Len(tokenizer.file)),
                            decode_token_bytes(FirstPart(line)))]
    /\ UNCHANGED notTokenizerVars

\* the file ends: Ok(Self { id_to_bytes }), and decode is called
EndOfFile ==
    /\ tokenizer.at = "loading"
    /\ tokenizer' = [tokenizer EXCEPT !.at = "decoding"]
    /\ UNCHANGED notTokenizerVars

\* decode: one turn of for &id in ids (lines 37-62)
DecodeId(id) ==
    /\ tokenizer.at = "decoding"
    /\ Len(tokenizer.ids) < MaxIds
    /\ tokenizer' = [tokenizer EXCEPT
          !.ids = Append(@, id),
          !.all_bytes =
              IF id \in DOMAIN tokenizer.id_to_bytes
              THEN IF IsSpecialToken(tokenizer.id_to_bytes[id]) THEN @
                   ELSE @ \o tokenizer.id_to_bytes[id]
              ELSE @]
    /\ UNCHANGED notTokenizerVars

\* decode returns String::from_utf8_lossy(&all_bytes).into_owned()
DecodeReturns ==
    /\ tokenizer.at = "decoding"
    /\ tokenizer' = [tokenizer EXCEPT !.at = "done",
                                      !.text = from_utf8_lossy(tokenizer.all_bytes)]
    /\ UNCHANGED notTokenizerVars

TokenizerNext ==
    \/ \E line \in Lines : ReadLine(line)
    \/ EndOfFile
    \/ \E id \in Ids : DecodeId(id)
    \/ DecodeReturns

(***************************************************************************)
(* BreezeASR::infer_stream and BreezeASR::infer_file, src/src/lib.rs       *)
(***************************************************************************)
\* the most items the input streams of all sessions deliver together
MaxPulls == 3

\* the most calls of infer_file
MaxFileCalls == 1

\* the most tokens the engine gives an utterance before end-of-text wins
MaxUtteranceTokens == 1

\* the configuration passed to init_with_vad: one silent chunk closes a
\* segment and 48 ms of rollback are 768 samples, a chunk and a half
StreamVadConfig ==
    [ sample_rate             |-> 16000,
      speech_threshold        |-> 50,
      silence_duration_ms     |-> 32,
      max_speech_duration_ms  |-> 96,
      rollback_duration_ms    |-> 48,
      min_speech_duration_ms  |-> 32,
      notify_silence_after_ms |-> NoneMs ]

\* lengths of the Vec<i16> items of an input stream
ChunkLens == {CHUNK_SIZE, 160}

\* speech probabilities of the streamed chunks, in hundredths
StreamProbs == {10, 90}

\* if chunk.len() != CHUNK_SIZE { continue; }
ChunkAccepted(len) == len = CHUNK_SIZE

\* a variant that never transcribes
SegmentToInferNever(out) == FALSE

\* if let Some(output) = output_opt { match output { Segment(segment) => ...
SegmentToInfer(out) == out.kind = "Segment"

\* what the encoder run of an utterance can come to
UtteranceEncoderOutcomes == {"ok", "run_err", "extract_err", "panic"}

\* the logits of a decoder run of an utterance: token 7 or end-of-text
\* wins; end-of-text once the utterance has MaxUtteranceTokens tokens after
\* SOT
UtteranceLogits(toks) ==
    IF Len(toks) <= MaxUtteranceTokens
    THEN { <<(<<7, 1>>)>>, <<(<<7, 1>>), (<<EOT, 2>>)>> }
    ELSE { <<(<<7, 1>>), (<<EOT, 2>>)>> }

\* what a decoder run of an utterance can come to
UtteranceDecoderOutcomes(toks) ==
    { [kind |-> "run_err", logits |-> <<>>],
      [kind |-> "extract_err", logits |-> <<>>],
      [kind |-> "panic", logits |-> <<>>] }
    \cup { [kind |-> "ok", logits |-> l] : l \in UtteranceLogits(toks) }

\* id_to_bytes of the Tokenizer the BreezeASR was built with: token 7 is
\* "hi" and SOT is "<|sot|>"
TokenTable ==
    [id \in {7, SOT} |->
        IF id = 7 THEN <<104, 105>>
        ELSE <<60, 124, 115, 111, 116, 124, 62>>]

\* Tokenizer::decode, lines 36-62: the bytes of the ids the map holds, but
\* for special tokens
RECURSIVE all_bytes(_, _)
all_bytes(map, ids) ==
    IF ids = <<>> THEN <<>>
    ELSE (IF ids[1] \in DOMAIN map /\ ~IsSpecialToken(map[ids[1]])
          THEN map[ids[1]] ELSE <<>>) \o all_bytes(map, Tail(ids))

\* Tokenizer::decode
decode(map, ids) == from_utf8_lossy(all_bytes(map, ids))

\* text.trim().is_empty(), for text of ASCII characters
TrimIsEmpty(text) == \A i \in DOMAIN text : IsWhitespace(text[i])

\* if let Ok(text) = ... { if !text.trim().is_empty() { yield Ok(text); } }
Yields(result) ==
    /\ result.kind = "Ok"
    /\ ~TrimIsEmpty(decode(TokenTable, result.tokens))

NewSession ==
    [at |-> "new", pending |-> <<>>, pulled |-> 0, finalized |-> 0,
     inferred |-> 0, items |-> <<>>, ended |-> FALSE, fresh |-> <<>>,
     finishes |-> 0]

NoFiles == [calls |-> 0, at |-> "idle", result |-> "None"]

\* the items pulled so far by the sessions of a set
RECURSIVE Pulled(_)
Pulled(ss) ==
    IF ss = {} THEN 0
    ELSE LET s == CHOOSE t \in ss : TRUE
         IN  sessions[s].pulled + Pulled(ss \ {s})

StreamIdle ==
    /\ sessions = [s \in Sessions |-> NewSession]
    /\ owner = <<>>
    /\ files = NoFiles

\* the session goes on with a Segment to transcribe or without
AfterOutput(x, out, infer_at, else_at) ==
    IF SegmentToInfer(out)
    THEN [x EXCEPT !.at = infer_at, !.pending = out.segment]
    ELSE [x EXCEPT !.at = else_at]

Finalized(x, out) ==
    [x EXCEPT !.finalized = @ + IF out.kind = "Segment" THEN 1 ELSE 0]

\* the first poll of the stream
Begin(s) ==
    /\ sessions[s].at = "new"
    /\ sessions' = [sessions EXCEPT ![s].at = "next",
                                    ![s].fresh = <<vad = VadNew(vad.config)>>]
    /\ UNCHANGED <<vadVars, inferVars, owner, files>>
    /\ UNCHANGED notStreamVars

\* stream.next() gives an item: lines 117-145 up to the transcription
NextChunk(s, len, probability) ==
    /\ sessions[s].at = "next"
    /\ Pulled(Sessions) < MaxPulls
    /\ IF ChunkAccepted(len)
       THEN \E res \in {process_chunk(vad, ChunkRun(fed), probability)} :
              /\ vad' = res.vad
              /\ fed' = fed + 1
              /\ owner' = Append(owner, s)
              /\ sessions' = [sessions EXCEPT ![s] =
                    AfterOutput(Finalized([@ EXCEPT !.pulled = @ + 1], res.out),
                                res.out, "segment", "next")]
       ELSE /\ sessions' = [sessions EXCEPT ![s].pulled = @ + 1]
            /\ UNCHANGED <<vad, fed, owner>>
    /\ UNCHANGED <<lastCall, ep, run, inferVars, files>>
    /\ UNCHANGED notStreamVars

\* stream.next() gives None: lines 148-168 up to the transcription
EndOfInput(s) ==
    /\ sessions[s].at = "next"
    /\ \E res \in {finish(vad)} :
         /\ vad' = res.vad
         /\ sessions' = [sessions EXCEPT ![s] =
               AfterOutput(Finalized([@ EXCEPT !.ended = TRUE,
                                               !.finishes = @ + 1], res.out),
                           res.out, "last_segment", "done")]
    /\ UNCHANGED <<fed, lastCall, ep, run, inferVars, owner, files>>
    /\ UNCHANGED notStreamVars

\* self.infer_segment(&segment) up to the call of self.model.infer(&mel)
InferSegment(s) ==
    /\ sessions[s].at \in {"segment", "last_segment"}
    /\ Call(s)

\* self.model.infer returns to infer_segment or unwinds through it: the
\* tokens are decoded, the text is yielded unless blank, an Err is dropped
InferSegmentReturn(s) ==
    /\ sessions[s].at \in {"segment", "last_segment"}
    /\ pc[s] \in {"returned", "panicked"}
    /\ IF pc[s] = "panicked"
       THEN /\ sessions' = [sessions EXCEPT ![s].at = "panicked",
                                            ![s].pending = <<>>]
            /\ UNCHANGED inferVars
       ELSE /\ sessions' = [sessions EXCEPT ![s] =
                  [@ EXCEPT !.at = IF @ = "segment" THEN "next" ELSE "done",
                            !.pending = <<>>,
                            !.inferred = @ + 1,
                            !.items = IF Yields(ret[s])
                                      THEN Append(@, sessions[s].finalized)
                                      ELSE @]]
            /\ pc' = [pc EXCEPT ![s] = "idle"]
            /\ ret' = [ret EXCEPT ![s] = NoRet]
            /\ obs' = [obs EXCEPT ![s] = NoObs]
            /\ UNCHANGED <<tokens, step, encoder, decoder, encoderCalls,
                           decoderCalls>>
    /\ UNCHANGED <<vadVars, owner, files>>
    /\ UNCHANGED notStreamVars

\* infer_file: self.audio_processor.load_and_preprocess(path)?
InferFile(loaded) ==
    /\ files.at = "idle"
    /\ files.calls < MaxFileCalls
    /\ files' = IF loaded
                THEN [calls |-> files.calls + 1, at |-> "loaded", result |-> "None"]
                ELSE [calls |-> files.calls + 1, at |-> "idle", result |-> "Err"]
    /\ UNCHANGED <<vadVars, inferVars, sessions, owner>>
    /\ UNCHANGED notStreamVars

\* infer_file: the call of self.model.infer(&mel)
InferFileCall ==
    /\ files.at = "loaded"
    /\ Call(FileCaller)

\* infer_file: self.model.infer returns or unwinds; Ok(vec![text]) or Err
InferFileReturn ==
    /\ files.at = "loaded"
    /\ pc[FileCaller] \in {"returned", "panicked"}
    /\ IF pc[FileCaller] = "panicked"
       THEN /\ files' = [files EXCEPT !.at = "panicked"]
            /\ UNCHANGED inferVars
       ELSE /\ files' = [files EXCEPT !.at = "idle",
                                      !.result = ret[FileCaller].kind]
            /\ pc' = [pc EXCEPT ![FileCaller] = "idle"]
            /\ ret' = [ret EXCEPT ![FileCaller] = NoRet]
            /\ obs' = [obs EXCEPT ![FileCaller] = NoObs]
            /\ UNCHANGED <<tokens, step, encoder, decoder, encoderCalls,
                           decoderCalls>>
    /\ UNCHANGED <<vadVars, sessions, owner>>
    /\ UNCHANGED notStreamVars

\* BreezeModel::infer on the thread of a session or of infer_file
Utterance(t) ==
    \/ LockEncoder(t, TRUE)
    \/ \E outcome \in UtteranceEncoderOutcomes : EncoderReturn(t, outcome, TRUE)
    \/ LockDecoder(t, TRUE)
    \/ DecoderRun(t)
    \/ \E outcome \in UtteranceDecoderOutcomes(tokens[t]) :
           DecoderReturn(t, outcome, TRUE)

StreamNext ==
    \/ \E s \in Sessions :
        \/ Begin(s)
        \/ \E len \in ChunkLens, probability \in StreamProbs :
               NextChunk(s, len, probability)
        \/ EndOfInput(s)
        \/ InferSegment(s)
        \/ InferSegmentReturn(s)
    \/ \E loaded \in BOOLEAN : InferFile(loaded)
    \/ InferFileCall
    \/ InferFileReturn
    \/ \E t \in Sessions \cup {FileCaller} : Utterance(t)


(***************************************************************************)
(* Specifications                                                          *)
(***************************************************************************)
VadIdle == VadStart({DefaultVadConfig})

\* one segmenter fed chunk by chunk
VadInit == VadStart(VadConfigs) /\ InferIdle /\ StreamIdle /\ AudioIdle /\ TokenizerIdle
    /\ SelectionIdle

SpecVad == VadInit /\ [][VadNext]_vars

\* one segmenter built with a silence notification configured
NotifyInit ==
    VadStart({NotifyVadConfig}) /\ InferIdle /\ StreamIdle /\ AudioIdle /\ TokenizerIdle
    /\ SelectionIdle

SpecNotify == NotifyInit /\ [][NotifyNext]_vars

\* the greedy selection applied to one logits vector
SelectionInit ==
    VadIdle /\ InferIdle /\ StreamIdle /\ AudioIdle /\ TokenizerIdle
    /\ SelectionIdle

SelectionNext == \E logits \in LogitsSlices : SelectToken(logits)

SpecSelection == SelectionInit /\ [][SelectionNext]_vars

\* one call of infer, its result kept
DecodeInit == VadIdle /\ InferIdle /\ StreamIdle /\ AudioIdle /\ TokenizerIdle
    /\ SelectionIdle

DecodeNext ==
    \/ Call(1)
    \/ LockEncoder(1, TRUE)
    \/ \E outcome \in EncoderOutcomes : EncoderReturn(1, outcome, TRUE)
    \/ LockDecoder(1, TRUE)
    \/ DecoderRun(1)
    \/ \E outcome \in DecoderOutcomes(tokens[1], MaxFree) :
           DecoderReturn(1, outcome, TRUE)
    \/ LoopExit(1, TRUE)

SpecDecode == DecodeInit /\ [][DecodeNext]_vars

\* concurrent callers, each calling infer again and again
InferInit == VadIdle /\ InferIdle /\ StreamIdle /\ AudioIdle /\ TokenizerIdle
    /\ SelectionIdle

InferNext ==
    \E t \in Callers :
        \/ Call(t)
        \/ Release(t)
        \/ LockEncoder(t, FALSE)
        \/ \E outcome \in EncoderOutcomes : EncoderReturn(t, outcome, FALSE)
        \/ LockDecoder(t, FALSE)
        \/ DecoderRun(t)
        \/ \E outcome \in DecoderOutcomes(tokens[t], 0) :
               DecoderReturn(t, outcome, FALSE)
        \/ LoopExit(t, FALSE)

SpecInfer == InferInit /\ [][InferNext]_vars

\* the streaming sessions of one BreezeASR built by init_with_vad
StreamInit == VadStart({StreamVadConfig}) /\ InferIdle /\ StreamIdle /\ AudioIdle /\ TokenizerIdle
    /\ SelectionIdle

SpecStream == StreamInit /\ [][StreamNext]_vars

\* AudioProcessor::new followed by one call of process_pcm
AudioInit == VadIdle /\ InferIdle /\ StreamIdle /\ AudioIdle /\ TokenizerIdle
    /\ SelectionIdle

SpecAudio == AudioInit /\ [][AudioNext]_vars

\* Tokenizer::new on a token file followed by one call of decode
TokenizerInit == VadIdle /\ InferIdle /\ StreamIdle /\ AudioIdle /\ TokenizerIdle
    /\ SelectionIdle

SpecTokenizer == TokenizerInit /\ [][TokenizerNext]_vars

(***************************************************************************)
(* Properties of the segmenter (SpecVad)                                   *)
(***************************************************************************)
\* exact duration comparison: len samples last at least ms milliseconds
LastsAtLeast(len, ms, config) == len * 1000 >= ms * config.sample_rate

\* the episode just closed on a silent chunk after k speech chunks
ClosedBySilence ==
    /\ lastCall.op = "process_chunk"
    /\ ep.phase = "closed"
    /\ ep.clean
    /\ ep.s >= 1
    /\ ep.after = 0

\* C1: k speech chunks from Waiting with r samples of rollback, then silence
\* up to the silence limit, yield exactly one Segment, of r + k * CHUNK_SIZE
\* samples, provided that length lasts at least min_speech_duration_ms.
C1SpeechThenSilence ==
    (ClosedBySilence
       /\ LastsAtLeast(ep.r + ep.k * CHUNK_SIZE,
                       vad.config.min_speech_duration_ms, vad.config))
    => /\ lastCall.out.kind = "Segment"
       /\ BufLen(lastCall.out.segment) = ep.r + ep.k * CHUNK_SIZE
       /\ ep.segments = 1

\* C2: no Segment output, whichever call produced it, is empty or shorter
\* than min_speech_duration_ms.
C2MinDurationFilter ==
    lastCall.out.kind = "Segment"
    => /\ BufLen(lastCall.out.segment) > 0
       /\ LastsAtLeast(BufLen(lastCall.out.segment),
                       vad.config.min_speech_duration_ms, vad.config)

C2Witness ==
    /\ lastCall.op = "finish"
    /\ lastCall.out.kind = "Segment"
    /\ vad.config.min_speech_duration_ms > 0

\* C3: a fresh segmenter with no silence notification configured that has
\* only been fed chunks at or below the threshold has produced no output, from
\* process_chunk or finish, and has never left Waiting.
C3SilenceOnly ==
    (run.allSilent /\ run.notifyCalls = 0)
    => /\ vad.state = "Waiting"
       /\ run.outputs = 0
       /\ lastCall.out = NoOutput
       /\ vad.current_segment = <<>>

C3Witness ==
    /\ run.allSilent
    /\ run.notifyCalls = 0
    /\ fed >= 3
    /\ lastCall.op = "finish"

\* the samples of buffer b that come before chunk c
Before(b, c) == { i \in BufIds(b) : i < c * CHUNK_SIZE }

\* C4: with the default configuration, one speech chunk followed by silent
\* chunks keeps recording through the 15th silent chunk, closes on the 16th
\* (chunk 17), the closed segment being what was recorded up to the end of the
\* speech chunk, emitted if it lasts 250 ms and discarded otherwise, and the
\* silent chunks after that are handled in Waiting without output.
C4ExampleScenario ==
    (/\ vad.config = DefaultVadConfig
     /\ lastCall.op = "process_chunk"
     /\ ep.phase # "none"
     /\ ep.clean
     /\ ep.k = 1)
    => /\ ep.s < 16 => /\ ep.phase = "open"
                       /\ vad.state = "Recording"
                       /\ lastCall.out = NoOutput
       /\ ep.s >= 16 => /\ ep.phase = "closed"
                        /\ ep.s = 16
                        /\ vad.state = "Waiting"
       /\ (ep.s = 16 /\ ep.after = 0) =>
            LET kept == Before(lastCall.held, ep.first + 1)
            IN  IF LastsAtLeast(Cardinality(kept), 250, vad.config)
                THEN /\ lastCall.out.kind = "Segment"
                     /\ BufIds(lastCall.out.segment) = kept
                     /\ ep.segments = 1
                ELSE /\ lastCall.out = NoOutput
                     /\ ep.segments = 0
       /\ ep.after >= 1 => /\ lastCall.out = NoOutput
                           /\ lastCall.pre = "Waiting"

C4Witness ==
    /\ vad.config = DefaultVadConfig
    /\ lastCall.op = "process_chunk"
    /\ ep.clean
    /\ ep.k = 1
    /\ ep.s = 16
    /\ ep.after = 4

\* C5: finish() called in Recording emits the in-progress segment whole exactly
\* when it lasts at least min_speech_duration_ms, nothing otherwise, and leaves
\* the segmenter reset in Waiting.
C5FinishResets ==
    (lastCall.op = "finish" /\ lastCall.pre = "Recording")
    => /\ lastCall.out =
            IF LastsAtLeast(BufLen(lastCall.held),
                            vad.config.min_speech_duration_ms, vad.config)
            THEN SegmentOutput(lastCall.held) ELSE NoOutput
       /\ vad.state = "Waiting"
       /\ vad.current_segment = <<>>
       /\ vad.history_buffer = <<>>
       /\ vad.silence_chunks = 0
       /\ vad.speech_chunks = 0
       /\ vad.waiting_dropped_chunks = 0
       /\ ~vad.notified_silence

(***************************************************************************)
(* Properties of the decode loop (SpecDecode) and of the mutexes           *)
(* (SpecInfer)                                                             *)
(***************************************************************************)
\* C6: a call makes at most MAX_LEN decoder runs; after the last one the loop
\* is over, and a call that ran them all without failure or end token
\* returns Ok.
C6DecodeTerminates ==
    \A t \in Callers :
        /\ obs[t].calls <= MAX_LEN
        /\ (pc[t] = "dec_loop" /\ obs[t].calls = MAX_LEN) => ~LoopContinues(step[t])
        /\ (/\ pc[t] = "returned"
            /\ obs[t].calls = MAX_LEN
            /\ obs[t].failedAt = <<>>
            /\ obs[t].lastSel # <<EOT>>)
           => /\ ret[t].kind = "Ok"
              /\ ret[t].tokens # <<>>

C6Witness ==
    /\ pc[1] = "returned"
    /\ obs[1].calls = MAX_LEN
    /\ obs[1].lastSel = <<7>>
    /\ ret[1].kind = "Ok"

\* C7: a returned token sequence holds no end-of-transcript id, and the step
\* that selects the end token ends the loop.
C7NoEndToken ==
    \A t \in Callers :
        /\ ret[t].kind = "Ok" =>
              \A i \in DOMAIN ret[t].tokens : ret[t].tokens[i] # EOT
        /\ obs[t].lastSel = <<EOT>> => (pc[t] = "returned" /\ ret[t].kind = "Ok")

C7Witness ==
    /\ pc[1] = "returned"
    /\ obs[1].lastSel = <<EOT>>
    /\ Len(ret[1].tokens) >= 4

\* C8: a returned token sequence starts with the start-of-transcript id and
\* has one more element than the steps that selected a token other than the
\* end token, so between 1 and MAX_LEN + 1 elements.
C8SequenceShape ==
    \A t \in Callers :
        ret[t].kind = "Ok"
        => /\ Len(ret[t].tokens) >= 1
           /\ ret[t].tokens[1] = SOT
           /\ Len(ret[t].tokens) = 1 + obs[t].pushes
           /\ Len(ret[t].tokens) <= MAX_LEN + 1

C8Witness ==
    /\ ret[1].kind = "Ok"
    /\ Len(ret[1].tokens) = MAX_LEN + 1
    /\ obs[1].pushes = MAX_LEN

\* C9: a decode step that fails at step i makes the call return an error that
\* names step i, and no tokens.
C9FailureNamesStep ==
    \A t \in Callers :
        obs[t].failedAt # <<>>
        => /\ ret[t].kind = "Err"
           /\ ret[t].tokens = <<>>
           /\ ret[t].step = obs[t].failedAt

\* C10: at most one run is in flight on the encoder session and at most one on
\* the decoder session.
C10EngineMutualExclusion ==
    /\ Cardinality(encoderCalls) <= 1
    /\ Cardinality(decoderCalls) <= 1

\* one caller's decoder run is in flight while another caller, its encoding
\* done, waits for the decoder lock
C10Witness ==
    \E t, u \in Callers :
        /\ t # u
        /\ decoderCalls = {t}
        /\ step[t] >= 1
        /\ pc[u] = "dec_lock"
        /\ decoder.holder = t

\* the callers inside their decode loop (model.rs:77-138)
InDecodeLoop == { t \in Callers : pc[t] \in {"dec_loop", "dec_run"} }

\* C11: a caller inside its decode loop holds the decoder lock from before
\* step 0 until the loop ends, so no other caller is inside its decode loop or
\* has a decoder run in flight: the decoder runs of two calls never interleave.
C11DecodeLoopsNotInterleaved ==
    \A t \in InDecodeLoop :
        /\ decoder.holder = t
        /\ decoderCalls \subseteq {t}
        /\ InDecodeLoop = {t}
        /\ \A u \in Callers \ {t} : step[u] = 0

\* one caller is between two of its steps while the other, encoded, waits
C11Witness ==
    \E t, u \in Callers :
        /\ t # u
        /\ pc[t] = "dec_loop"
        /\ step[t] = 3
        /\ pc[u] = "dec_lock"

\* C12: the encoder guard is dropped before the decoder lock is requested, so
\* no caller holds both locks, a caller holds the encoder lock only during its
\* encoder run, and at most one caller is inside its decode loop.
C12SeparateLocks ==
    /\ \A t \in Callers :
          /\ ~(encoder.holder = t /\ decoder.holder = t)
          /\ encoder.holder = t <=> pc[t] = "enc_run"
          /\ pc[t] \in {"dec_lock", "dec_loop", "dec_run"} => encoder.holder # t
    /\ Cardinality(InDecodeLoop) <= 1

\* one caller runs the encoder while another is in its decode loop
C12Witness ==
    \E t, u \in Callers :
        /\ t # u
        /\ decoder.holder = t
        /\ decoderCalls = {t}
        /\ encoder.holder = u
        /\ encoderCalls = {u}

\* C13: once a call of infer has ended, however it ended, it holds neither
\* lock and both locks can still be acquired by a later call.
C13LocksUsableAfterFailure ==
    \A t \in Callers :
        pc[t] \in {"returned", "panicked"}
        => /\ encoder.holder # t
           /\ decoder.holder # t
           /\ ~encoder.poisoned
           /\ ~decoder.poisoned

(***************************************************************************)
(* Properties of the streaming sessions (SpecStream)                       *)
(***************************************************************************)
Transcribing == {"segment", "last_segment"}

\* C14: in every session a finalized Segment is transcribed before the next
\* item is pulled (the session is inside infer only while it holds a segment
\* to transcribe), only finalized Segments are transcribed, the texts are
\* yielded in the order of their segments, and finish() is called once, after
\* the input has ended.
C14SequentialConsumer ==
    \A s \in Sessions :
        LET x == sessions[s]
        IN  /\ x.pending # <<>> <=> x.at \in Transcribing
            /\ pc[s] # "idle" => x.at \in Transcribing \cup {"panicked"}
            /\ x.at \in {"new", "next", "done"} => x.inferred = x.finalized
            /\ x.at \in Transcribing \cup {"panicked"} =>
                  x.finalized = x.inferred + 1
            /\ x.finalized <= x.pulled + x.finishes
            /\ \A i \in DOMAIN x.items : x.items[i] \in 1 .. x.inferred
            /\ \A i, j \in DOMAIN x.items : i < j => x.items[i] < x.items[j]
            /\ x.finishes = IF x.ended THEN 1 ELSE 0
            /\ x.ended <=> x.at \in {"last_segment", "done"}
                           \/ (x.at = "panicked" /\ x.finishes = 1)

\* three items gave two segments, both transcribed and yielded in order
C14Witness ==
    \E s \in Sessions :
        /\ sessions[s].at = "done"
        /\ sessions[s].pulled = 3
        /\ sessions[s].items = <<1, 2>>

\* C15: a session ends only when its input has ended, whatever became of the
\* transcription of its segments, and a segment whose transcription failed
\* leaves the session pulling items.
C15FailedUtteranceDropped ==
    \A s \in Sessions :
        /\ sessions[s].at \in {"done", "panicked"} => sessions[s].ended
        /\ sessions[s].at # "panicked"

\* the chunks that samples of buffer b come from
BufChunks(b) ==
    UNION { (b[i][1] \div CHUNK_SIZE) .. ((b[i][2] - 1) \div CHUNK_SIZE) :
            i \in DOMAIN b }

\* C16: every session begins with the segmenter in its initial state, and a
\* segment transcribed for a session holds samples of that session's chunks
\* only.
C16SegmenterPerSession ==
    \A s \in Sessions :
        /\ sessions[s].fresh \in {<<>>, <<TRUE>>}
        /\ \A c \in BufChunks(sessions[s].pending) : owner[c + 1] = s

(***************************************************************************)
(* Properties of the feature extractor (SpecAudio)                         *)
(***************************************************************************)
\* C17: for every input length the audio is fitted to 480000 samples, framed
\* into (480000 - 400) / 160 + 1 frames that all lie inside the fitted audio,
\* the frame axis is brought to 3000, and the result is 80 rows by 3000
\* columns; no step overflows or reads out of range.
C17SpectrogramShape ==
    /\ audio.at # "panicked"
    /\ audio.at # "idle" => audio.padded = 480000
    /\ audio.at = "stft" =>
          /\ audio.rows = (480000 - 400) \div 160 + 1
          /\ \A i \in 0 .. (audio.rows - 1) : i * 160 + 400 <= audio.padded
    /\ audio.at = "mel" => audio.cols = 80
    /\ audio.at = "fixed" => (audio.rows = 3000 /\ audio.cols = 80)
    /\ audio.at = "done" => (audio.rows = 80 /\ audio.cols = 3000)

\* the spectrogram of an empty input
C17Witness ==
    /\ audio.at = "done"
    /\ audio.len = 0
    /\ audio.rows = 80

\* 2 / bandwidth of band i, in units of 2^-20
TwoOverBandwidth(i) == (2 * NormOne * MilliHz) \div (mels[i + 3] - mels[i + 1])

Distance(a, b) == IF a >= b THEN a - b ELSE b - a

\* C20: for every band of the finished filter bank, the sum of
\* its weights times its bandwidth is 2, that is the sum is 2 / bandwidth,
\* within one part in 64.
C20ColumnSumsNormalized ==
    bank.at = "built" =>
        \A i \in 1 .. N_MELS :
            Distance(ColumnSum(bank.weights[i]), WeightOne * TwoOverBandwidth(i - 1))
               <= (WeightOne * TwoOverBandwidth(i - 1)) \div 64

(***************************************************************************)
(* Properties of the tokenizer (SpecTokenizer)                             *)
(***************************************************************************)
\* bytes that begin with "<|" and end with "|>"
BracketedAsControl(bytes) ==
    /\ Len(bytes) >= 2
    /\ SubSeq(bytes, 1, 2) = <<60, 124>>
    /\ SubSeq(bytes, Len(bytes) - 1, Len(bytes)) = <<124, 62>>

\* what the id contributes: the bytes of the vocabulary entry read from the
\* line of that zero-based index, nothing if the line gave no entry, if there
\* is no such line, or if the entry is a control token (its bytes begin with
\* "<|" and end with "|>")
Contribution(file, id) ==
    IF id \in 0 .. (Len(file) - 1) /\ ~PartsEmpty(file[id + 1])
    THEN LET bytes == decode_token_bytes(FirstPart(file[id + 1]))
         IN  IF BracketedAsControl(bytes) THEN <<>> ELSE bytes
    ELSE <<>>

RECURSIVE Concatenation(_, _)
Concatenation(file, ids) ==
    IF ids = <<>> THEN <<>>
    ELSE Concatenation(file, SubSeq(ids, 1, Len(ids) - 1))
            \o Contribution(file, ids[Len(ids)])

\* C18: decode returns the lossy UTF-8 reading of the contributions of the
\* ids concatenated in the order given, unknown ids and control tokens
\* contributing nothing; ids [0, 1] for the lines "hello" and "world" give
\* "helloworld".
C18OrderedConcatenation ==
    tokenizer.at = "done" =>
        /\ tokenizer.text =
              from_utf8_lossy(Concatenation(tokenizer.file, tokenizer.ids))
        /\ (/\ Len(tokenizer.file) >= 2
            /\ tokenizer.file[1] = LineHello
            /\ tokenizer.file[2] = LineWorld
            /\ tokenizer.ids = <<0, 1>>)
           => tokenizer.text = LineHello \o LineWorld

\* the bytes the ids contribute when every entry that begins with "<|" and
\* ends with "|>" is skipped and every other known id gives its bytes
RECURSIVE BytesWithoutControl(_, _)
BytesWithoutControl(map, ids) ==
    IF ids = <<>> THEN <<>>
    ELSE LET id == ids[Len(ids)]
         IN  BytesWithoutControl(map, SubSeq(ids, 1, Len(ids) - 1))
                \o (IF id \in DOMAIN map /\ ~BracketedAsControl(map[id])
                    THEN map[id] ELSE <<>>)

\* C29: the bytes decode has collected are those of the known ids in order,
\* an entry contributing nothing if its bytes begin with "<|" and end with
\* "|>", whatever its length, and its bytes otherwise.
C29ControlTokensSkipped ==
    tokenizer.at \in {"decoding", "done"} =>
        tokenizer.all_bytes =
            BytesWithoutControl(tokenizer.id_to_bytes, tokenizer.ids)


(***************************************************************************)
(* Properties of the segmenter's construction (SpecVad)                    *)
(***************************************************************************)
\* C19: a segmenter that has processed a chunk holds a configuration whose
\* silence, maximum-speech, rollback and minimum-speech durations are all
\* positive.
C19InvalidConfigRejected ==
    fed > 0 =>
        /\ vad.config.silence_duration_ms > 0
        /\ vad.config.max_speech_duration_ms > 0
        /\ vad.config.rollback_duration_ms > 0
        /\ vad.config.min_speech_duration_ms > 0



(***************************************************************************)
(* Properties of the segmenter's transitions (SpecVad)                     *)
(***************************************************************************)
\* exact arithmetic: n chunks last at least ms milliseconds
ChunksLastAtLeast(n, ms, config) ==
    n * CHUNK_SIZE * 1000 >= ms * config.sample_rate

\* the call just made was process_chunk, made in the given state
Processed(pre) == lastCall.op = "process_chunk" /\ lastCall.pre = pre

\* C21: when a chunk above the threshold arrives in Waiting, the new segment
\* is the whole rollback buffer held before the chunk (ep.r samples, the most
\* recent ones) followed by all CHUNK_SIZE samples of the chunk; the rollback
\* buffer is then empty, the counters are zero and the notified flag is clear.
C21SeedIsRollbackThenChunk ==
    (Processed("Waiting") /\ vad.state = "Recording")
    => /\ vad.current_segment =
            <<(<<(fed - 1) * CHUNK_SIZE - ep.r, fed * CHUNK_SIZE>>)>>
       /\ vad.history_buffer = <<>>
       /\ vad.silence_chunks = 0
       /\ vad.speech_chunks = 0
       /\ vad.waiting_dropped_chunks = 0
       /\ ~vad.notified_silence

\* C22: a speech chunk received in Recording closes the segment exactly when
\* the speech chunks received since entering Recording (ep.heard, silent
\* chunks not counted) last max_speech_duration_ms, and a segment closed this
\* way is the accumulated segment with the chunk, nothing removed.
C22MaxSpeechCountsSpeechOnly ==
    (Processed("Recording") /\ ep.quiet = 0)
    => /\ (vad.state = "Waiting")
            <=> ChunksLastAtLeast(ep.heard, vad.config.max_speech_duration_ms,
                                  vad.config)
       /\ lastCall.out.kind = "Segment"
            => lastCall.out.segment = BufPush(lastCall.held, ChunkRun(fed - 1))

\* the chunks received in Recording in the current episode, the last included
ChunksRecorded == fed - 1 - ep.first

\* C23: a silent chunk received in Recording closes the segment exactly when
\* the silent chunks received since the last speech chunk (ep.quiet) last
\* silence_duration_ms; the closed segment is the accumulated segment without
\* its last ep.quiet * CHUNK_SIZE samples, which are exactly the samples of
\* those silent chunks, so that everything accumulated up to the end of the
\* last speech chunk is kept; it is the segment emitted, and it is emitted
\* whenever it lasts longer than min_speech_duration_ms.
C23SilenceCloseTrimsExactly ==
    (Processed("Recording") /\ ep.quiet >= 1)
    => LET closes  == ChunksLastAtLeast(ep.quiet,
                          vad.config.silence_duration_ms, vad.config)
           whole   == BufPush(lastCall.held, ChunkRun(fed - 1))
           silence == ep.quiet * CHUNK_SIZE
           kept    == BufTake(whole, BufLen(whole) - silence)
       IN  /\ (vad.state = "Waiting") <=> closes
           /\ closes =>
                /\ silence <= BufLen(whole)
                /\ BufIds(whole) \ BufIds(kept) =
                      ((fed - ep.quiet) * CHUNK_SIZE) .. (fed * CHUNK_SIZE - 1)
                /\ BufIds(lastCall.held) \ BufIds(kept) \subseteq
                      ((fed - ep.quiet) * CHUNK_SIZE) .. (fed * CHUNK_SIZE - 1)
                /\ lastCall.out \in {SegmentOutput(kept), NoOutput}
                /\ BufLen(kept) * 1000 >
                      vad.config.min_speech_duration_ms * vad.config.sample_rate
                      => lastCall.out = SegmentOutput(kept)
           /\ ~closes => lastCall.out = NoOutput

\* a close on the second of two silent chunks that follow speech, silence,
\* speech
C23Witness ==
    /\ Processed("Recording")
    /\ vad.state = "Waiting"
    /\ ~ep.clean
    /\ ep.quiet = 2
    /\ ep.heard >= 1
    /\ lastCall.out.kind = "Segment"
    /\ BufLen(lastCall.out.segment) = BufLen(lastCall.held) - CHUNK_SIZE

\* C24: with a timeout configured, a SilenceNotification is emitted on a
\* Waiting chunk only if waiting_dropped_chunks chunks last the timeout and
\* none was emitted before in the same Waiting period (run.notes counts those
\* emitted since the segmenter last entered Waiting), and it is emitted no
\* later than the first such chunk; with no timeout configured, and by any
\* other call, none is emitted.
C24NotifiedOncePerWaiting ==
    LET limit   == vad.config.notify_silence_after_ms
        reached == /\ limit # NoneMs
                   /\ ChunksLastAtLeast(vad.waiting_dropped_chunks, limit[1],
                                        vad.config)
    IN  /\ lastCall.out = SilenceNotification
            => /\ Processed("Waiting")
               /\ vad.state = "Waiting"
               /\ reached
               /\ run.notes = 1
        /\ (Processed("Waiting") /\ vad.state = "Waiting" /\ reached)
            => run.notes >= 1
        /\ run.notes <= 1

\* the chunk just processed in Recording made the segmenter finalize: a
\* silent chunk that completes silence_duration_ms of silence, or a speech
\* chunk with which the chunks recorded last max_speech_duration_ms
JustFinalized ==
    /\ Processed("Recording")
    /\ IF ep.quiet = 0
       THEN ChunksLastAtLeast(ChunksRecorded, vad.config.max_speech_duration_ms,
                              vad.config)
       ELSE ChunksLastAtLeast(ep.quiet, vad.config.silence_duration_ms,
                              vad.config)

\* the segmenter as reset leaves it
IsReset(v) ==
    /\ v.state = "Waiting"
    /\ v.current_segment = <<>>
    /\ v.history_buffer = <<>>
    /\ v.silence_chunks = 0
    /\ v.speech_chunks = 0
    /\ v.waiting_dropped_chunks = 0
    /\ ~v.notified_silence

\* the oldest sample the segmenter holds, the next one to arrive if none
OldestHeld ==
    LET los == { vad.current_segment[i][1] : i \in DOMAIN vad.current_segment }
                  \cup { vad.history_buffer[i][1] : i \in DOMAIN vad.history_buffer }
                  \cup { fed * CHUNK_SIZE }
    IN  CHOOSE lo \in los : \A other \in los : lo <= other

\* no call brings back a sample older than the oldest one held before it,
\* in the segment buffer, in the rollback buffer or in its output
NothingOlderReturns ==
    /\ \A i \in DOMAIN vad'.current_segment :
          vad'.current_segment[i][1] >= OldestHeld
    /\ \A i \in DOMAIN vad'.history_buffer :
          vad'.history_buffer[i][1] >= OldestHeld
    /\ \A i \in DOMAIN lastCall'.out.segment :
          lastCall'.out.segment[i][1] >= OldestHeld

\* C25: after every finalization, whether the segment is emitted or
\* discarded, the segmenter is in Waiting with both buffers empty, the three
\* counters at zero and the notified flag clear; and since no call brings
\* back a sample older than those held, no sample of a closed segment is in
\* any later segment.
C25FinalizationResets ==
    /\ [](JustFinalized => IsReset(vad))
    /\ [][NothingOlderReturns]_vars

\* a segment closed by silence and discarded by the minimum-duration filter
C25Witness ==
    /\ JustFinalized
    /\ ep.quiet >= 1
    /\ lastCall.held # <<>>
    /\ lastCall.out = NoOutput

\* rollback_duration_ms * sample_rate / 1000 samples, in exact arithmetic
RollbackCapacity(config) ==
    (config.rollback_duration_ms * config.sample_rate) \div 1000

\* the most recent n samples received, in arrival order
MostRecent(n) ==
    IF n = 0 THEN <<>> ELSE <<(<<fed * CHUNK_SIZE - n, fed * CHUNK_SIZE>>)>>

\* C26: after every process_chunk call the rollback buffer holds at most
\* rollback_duration_ms * sample_rate / 1000 samples; in Waiting it holds the
\* most recent samples received in the current Waiting period (run.waited
\* chunks, counted until they fill the buffer), in arrival order, as many as
\* fit; in Recording it is empty.
C26RollbackIsBoundedRing ==
    lastCall.op = "process_chunk"
    => LET cap      == RollbackCapacity(vad.config)
           received == run.waited * CHUNK_SIZE
       IN  /\ BufLen(vad.history_buffer) <= cap
           /\ vad.state = "Waiting"
                => vad.history_buffer =
                      MostRecent(IF received < cap THEN received ELSE cap)
           /\ vad.state = "Recording" => vad.history_buffer = <<>>

\* the default buffer of 3200 samples after eight silent chunks: the oldest
\* 896 samples have been dropped
C26Witness ==
    /\ lastCall.op = "process_chunk"
    /\ vad.config = DefaultVadConfig
    /\ vad.state = "Waiting"
    /\ fed = 8
    /\ run.allSilent
    /\ vad.history_buffer = <<(<<896, 4096>>)>>

\* the least number of chunks that last ms milliseconds
ChunksToReach(ms, config) ==
    (ms * config.sample_rate + CHUNK_SIZE * 1000 - 1) \div (CHUNK_SIZE * 1000)

\* C30: with positive silence and maximum-speech durations, a segmenter in
\* Recording has received fewer chunks since it entered Recording than the
\* chunks needed to reach max_speech_duration_ms plus the chunks needed to
\* reach silence_duration_ms, so the episode ends at the latest on the chunk
\* that completes that number, and the segment in progress holds no more than
\* the rollback seed and those chunks.
C30RecordingEnds ==
    (/\ lastCall.op = "process_chunk"
     /\ vad.state = "Recording"
     /\ vad.config.silence_duration_ms > 0
     /\ vad.config.max_speech_duration_ms > 0)
    => LET most == ChunksToReach(vad.config.max_speech_duration_ms, vad.config)
                     + ChunksToReach(vad.config.silence_duration_ms, vad.config)
       IN  /\ ChunksRecorded < most
           /\ BufLen(vad.current_segment) <=
                 RollbackCapacity(vad.config) + most * CHUNK_SIZE

\* the longest episode of the small configuration: four speech chunks after
\* the entry chunk and one silent chunk, one short of 5 + 2
C30Witness ==
    /\ lastCall.op = "process_chunk"
    /\ vad.state = "Recording"
    /\ vad.config = SmallVadConfig
    /\ ChunksRecorded =
          ChunksToReach(vad.config.max_speech_duration_ms, vad.config)
            + ChunksToReach(vad.config.silence_duration_ms, vad.config) - 2
    /\ ep.quiet = 1

(***************************************************************************)
(* Properties of the decode step inputs (SpecDecode)                       *)
(***************************************************************************)
\* C27: while the decoder run of step i is in flight, its token input is the
\* token selected by the step before (the start token at step 0), which is the
\* last one of the token vector; its offset is i, one less than the number of
\* tokens; its self-attention caches are those the run of step i - 1 returned
\* (zeros at step 0); and its attention context is the one the encoder run of
\* the same call returned, which the call holds unchanged through the loop.
C27DecodeInputsChain ==
    \A t \in Callers :
        /\ pc[t] = "dec_run"
            => LET i  == step[t]
                   in == obs[t].inputs
               IN  /\ in.tokens = IF i = 0 THEN SOT ELSE obs[t].lastSel[1]
                   /\ in.tokens = tokens[t][Len(tokens[t])]
                   /\ in.offset = i
                   /\ i = Len(tokens[t]) - 1
                   /\ in.self_cache = IF i = 0 THEN ZeroCache ELSE CacheFrom(i - 1)
                   /\ in.cross = ContextOf(t)
        /\ pc[t] \in {"dec_loop", "dec_run"} => obs[t].context = ContextOf(t)

\* the third decoder run of a call
C27Witness ==
    /\ pc[1] = "dec_run"
    /\ step[1] = 2
    /\ tokens[1] = <<SOT, 7, SOT>>
    /\ obs[1].inputs = [tokens |-> SOT, offset |-> 2,
                        self_cache |-> CacheFrom(1), cross |-> ContextOf(1)]

(***************************************************************************)
(* Properties of the greedy selection (SpecSelection)                      *)
(***************************************************************************)
\* the indices, counted from 0, at which the vector has its maximum value
IndicesOfMaximum(logits) ==
    { i \in 0 .. (Len(logits) - 1) :
        \A j \in 1 .. Len(logits) : logits[j] <= logits[i + 1] }

\* C28: the token selected from a logits vector is the smallest index at
\* which the vector has its maximum value.
C28LowestIndexWins ==
    selection # NoSelection
    => /\ selection.token \in IndicesOfMaximum(selection.logits)
       /\ \A i \in IndicesOfMaximum(selection.logits) : selection.token <= i

\* the maximum stands at indices 1 and 3
C28Witness ==
    /\ selection.logits = <<1, 2, 0, 2>>
    /\ selection.token = 1

=============================================================================
